---- MODULE Spec2Model ----
(***************************************************************************)
(* The UEF session client of src/public/uef.js (second script, the         *)
(* "Ask Mappy" help + base-navigation integration), then three of its      *)
(* variants: src/unnamed/part_007 (operators P7_...), the first script of  *)
(* src/public/uef.js (operators S1_...) and src/unnamed/part_001           *)
(* (operators P1_...), one page loading one script in each specification.  *)
(* JavaScript strings                                                      *)
(* are TLA+ strings; null and undefined are the two sentinels below.       *)
(* Each JavaScript function is an operator from a step record (the module  *)
(* level variables of the script plus the messages posted so far in the    *)
(* running handler) to a step record; each action runs one handler to      *)
(* completion.                                                             *)
(***************************************************************************)
EXTENDS Integers, Sequences, FiniteSets, TLC

\* ------------------------------------------------------------------ bounds
\* the model stops counting authorize requests beyond this many
MaxSent == 2
\* the clock of the model stops here
MaxNow == 10375
\* setTimeout callbacks that may be pending at once
MaxTimeouts == 1
\* portal:panel requests of the first script the host has not answered
MaxPending == 2

\* ------------------------------------------------------- JavaScript values
Null == "<null>"
Undefined == "<undefined>"

Truthy(v) == v \notin {Null, Undefined, ""}

\* String.prototype.trim on the strings the model uses
Trim(str) ==
  CASE str = " " -> ""
    [] str = " https://lms " -> "https://lms"
    [] str = " tokA " -> "tokA"
    [] str = "tokB " -> "tokB"
    [] OTHER -> str

\* typeof v === "string"
IsString(v) == v \notin {Null, Undefined}

\* ------------------------------------------------------------------ config
INTEGRATION_ID == "noodlefactory-help"
INTEGRATION_NAME == "Ask Mappy"
ICON_PATH == "/nf-help-icon.png"
BASE_NAV_ROUTE_NAME == "ask-mappy"
BASE_NAV_DISPLAY_NAME == INTEGRATION_NAME
WIDGET_PATH == "/widget.html"
OPEN_PANEL_WHEN_BASE_NAV_ROUTE_ENTERED == TRUE
OPEN_PANEL_WHEN_HELP_MENU_CLICKED == TRUE

\* ------------------------------------------------- environment value sets
\* <<window.__lmsHost, document.referrer>> as the boot page leaves them
HostSources ==
  {<<Undefined, "">>, <<" ", "not a url">>,
   <<" https://lms ", "https://ref/launch?x=1">>,
   <<Undefined, "https://ref/launch?x=1">>}
\* <<window.__token, localStorage["uef_user_token"]>>
TokenSources ==
  {<<Undefined, Null>>, <<" tokA ", "tokB ">>, <<" ", "tokB ">>}
\* the sources of the session runs: one configured host, with and without a
\* credential
SessionHostSources == {<<" https://lms ", "https://ref/launch?x=1">>}
SessionTokenSources == {<<Undefined, Null>>, <<" tokA ", "tokB ">>}
\* origins of inbound window messages
Origins == {"https://lms", "https://ref", "https://lms.evil"}
\* ports carried by window messages
Ports == {"port1", "port2"}
\* Date.now() at the calls of randomId
Timestamps == {1700000000}
\* Math.random().toString(16).slice(2)
RandomValues == {"a", "b"}
\* correlation ids the host uses for help:request
HelpCorrelationIds == {"h1", "h2"}
\* portal ids the host assigns
PortalIds == {"P1", "P2"}
\* Date.now() when the page loads, and how far it moves between two events
StartTimes == {10000}
TickSteps == {125}
\* the values Date.now() takes in the runs of the first script: 2 s and 10 s
\* after the load
ClockValues == {10000, 12000, 20000}

VARIABLES
  \* page environment
  windowLmsHost, referrer, windowToken, storedToken, booted,
  \* module-level state of the script
  messageChannel, isAuthorized, helpRegistered, baseNavRegistered,
  currentPortalId, currentPanelCorrelationId, currentCloseCallbackId,
  openedFromBaseNavThisVisit,
  \* observation: last inbound event, what its handler posted, totals
  lastIn, out, threw, nSent, hostSpoke,
  helpAwaiting, baseNavAwaiting, helpAcked, baseNavAcked, everUnauthorized,
  panelClosed, visitReset,
  \* src/unnamed/part_007: its module-level state (a record), Date.now(), the
  \* setTimeout callbacks not yet run, and the correlation ids of the
  \* portal:panel requests the host has not answered
  part7, clock, pendingTimeouts, awaitingPanel,
  \* src/public/uef.js, first script: window.__token and its localStorage
  \* keys (a record), its module-level state (a record), its suspended async
  \* functions, and what the host has done about its panels: the portal:panel
  \* requests it has not answered, the portal ids it has opened and those
  \* whose close it has notified
  page1, script1, tasks1, host1,
  \* src/unnamed/part_001: window.__lmsHost, window.__token and its two
  \* localStorage keys (a record), its module-level state (a record)
  page001, part1
  \* helpAcked / baseNavAcked: the host has answered a posted registration
  \* request of that kind with status success at some point of the session
  \* visitReset: the last step was a route event for another route that set
  \* openedFromBaseNavThisVisit from true to false
  \* panelClosed: the last step was the close notification of the tracked,
  \* open panel
  \* helpAwaiting / baseNavAwaiting: a request of that kind was posted after
  \* the last reply of that kind, so it is still unanswered

envVars == <<windowLmsHost, referrer, windowToken, storedToken>>
progVars == <<messageChannel, isAuthorized, helpRegistered, baseNavRegistered,
              currentPortalId, currentPanelCorrelationId,
              currentCloseCallbackId, openedFromBaseNavThisVisit>>
obsVars == <<lastIn, out, threw, nSent, hostSpoke, helpAwaiting,
             baseNavAwaiting, helpAcked, baseNavAcked, everUnauthorized,
             panelClosed, visitReset>>
part7Vars == <<part7, clock, pendingTimeouts, awaitingPanel>>
script1Vars == <<page1, script1, tasks1, host1>>
part1Vars == <<page001, part1>>
vars == <<envVars, booted, progVars, obsVars, part7Vars, script1Vars,
          part1Vars>>

\* ---------------------------------------------------------------- messages
OutTypes == {"integration:hello", "authorization:authorize", "event:subscribe",
             "help:register", "basenav:register", "help:request:response",
             "portal:panel", "portal:render"}

\* the requests whose session totals are kept
CountedTypes == {"authorization:authorize"}

\* an outbound message: via is "window" or the port it was posted on
OutMsg(type, via) ==
  [type |-> type, via |-> via, target |-> Undefined, token |-> Undefined,
   id |-> Undefined, displayName |-> Undefined, routeName |-> Undefined,
   correlationId |-> Undefined, portalId |-> Undefined,
   callbackId |-> Undefined, contents |-> Undefined]

\* an inbound message on the port
InMsg(type) ==
  [src |-> "port", type |-> type, status |-> Undefined,
   correlationId |-> Undefined, eventType |-> Undefined,
   routeName |-> Undefined, portalId |-> Undefined, callbackId |-> Undefined]

\* an inbound window "message" event
WinEvent(origin, type, ports) ==
  [src |-> "window", origin |-> origin, type |-> type, ports |-> ports]

NoEvent == [src |-> "none"]

\* -------------------------------------------------------------- step record
Cur ==
  [windowLmsHost |-> windowLmsHost, referrer |-> referrer,
   windowToken |-> windowToken, storedToken |-> storedToken,
   messageChannel |-> messageChannel, isAuthorized |-> isAuthorized,
   helpRegistered |-> helpRegistered, baseNavRegistered |-> baseNavRegistered,
   currentPortalId |-> currentPortalId,
   currentPanelCorrelationId |-> currentPanelCorrelationId,
   currentCloseCallbackId |-> currentCloseCallbackId,
   openedFromBaseNavThisVisit |-> openedFromBaseNavThisVisit,
   dateNow |-> Undefined, mathRandom |-> Undefined,
   out |-> <<>>, threw |-> FALSE]

\* ------------------------------------------------------------------- utils
\* new URL(ref).origin; "<throws>" when ref is not a URL
UrlOrigin(ref) ==
  CASE ref = "https://ref/launch?x=1" -> "https://ref"
    [] ref = "https://lms" -> "https://lms"
    [] OTHER -> "<throws>"

getIntegrationHost == "https://tool"

getLmsHost(s) ==
  IF IsString(s.windowLmsHost) /\ Truthy(Trim(s.windowLmsHost))
  THEN Trim(s.windowLmsHost)
  ELSE IF Truthy(s.referrer) /\ UrlOrigin(s.referrer) # "<throws>"
       THEN UrlOrigin(s.referrer)
       ELSE ""

getToken(s) ==
  IF IsString(s.windowToken) /\ Truthy(Trim(s.windowToken))
  THEN Trim(s.windowToken)
  ELSE Trim(IF Truthy(s.storedToken) THEN s.storedToken ELSE "")

randomId(s, prefix) ==
  prefix \o "-" \o ToString(s.dateNow) \o "-" \o s.mathRandom

\* messageChannel.postMessage(message): a TypeError when messageChannel is
\* null, which ends the running handler
ChannelPost(s, m) ==
  IF s.threw THEN s
  ELSE IF s.messageChannel = Null THEN [s EXCEPT !.threw = TRUE]
  ELSE [s EXCEPT !.out = Append(@, [m EXCEPT !.via = s.messageChannel])]

\* window.parent.postMessage(message, targetOrigin)
WindowPost(s, m, targetOrigin) ==
  IF s.threw THEN s
  ELSE [s EXCEPT !.out = Append(@, [m EXCEPT !.via = "window",
                                             !.target = targetOrigin])]

\* --------------------------------------------------------------- handshake
\* startHandshake without the missing-host abort
startHandshake_NoHostCheck(s) ==
  WindowPost(s, OutMsg("integration:hello", "window"), getLmsHost(s) \o "/*")

\* startHandshake that authorizes at once instead of waiting for the port
startHandshake_ThenAuthorize(s) ==
  LET lmsHost == getLmsHost(s) IN
  IF ~Truthy(lmsHost) THEN s
  ELSE LET s1 == WindowPost(s, OutMsg("integration:hello", "window"),
                            lmsHost \o "/*")
           token == getToken(s1)
       IN IF ~Truthy(token) THEN s1
          ELSE ChannelPost(s1, [OutMsg("authorization:authorize", Null)
                                  EXCEPT !.token = token])

startHandshake(s) ==
  LET lmsHost == getLmsHost(s) IN
  IF ~Truthy(lmsHost) THEN s
  ELSE WindowPost(s, OutMsg("integration:hello", "window"), lmsHost \o "/*")

\* authorize without the missing-token return
authorize_NoTokenCheck(s) ==
  ChannelPost(s, [OutMsg("authorization:authorize", Null)
                    EXCEPT !.token = getToken(s)])

authorize(s) ==
  LET token == getToken(s) IN
  IF ~Truthy(token) THEN s
  ELSE ChannelPost(s, [OutMsg("authorization:authorize", Null)
                         EXCEPT !.token = token])

\* onPostMessageReceived without the "MessagePort already set" return
onPostMessageReceived_NoChannelGuard(s, event) ==
  LET lmsHost == getLmsHost(s) IN
  IF ~Truthy(lmsHost) THEN s
  ELSE IF event.origin # lmsHost THEN s
  ELSE IF ~Truthy(event.type) THEN s
  ELSE IF event.type # "integration:hello" /\ event.type # "integration:port"
       THEN s
  ELSE IF Len(event.ports) = 0 THEN s
  ELSE authorize([s EXCEPT !.messageChannel = event.ports[1]])

\* onPostMessageReceived with event.origin.startsWith(lmsHost) as origin check
onPostMessageReceived_PrefixOrigin(s, event) ==
  LET lmsHost == getLmsHost(s) IN
  IF ~Truthy(lmsHost) THEN s
  ELSE IF event.origin \notin {lmsHost, lmsHost \o ".evil"} THEN s
  ELSE IF ~Truthy(event.type) THEN s
  ELSE IF event.type # "integration:hello" /\ event.type # "integration:port"
       THEN s
  ELSE IF Len(event.ports) = 0 THEN s
  ELSE IF s.messageChannel # Null THEN s
  ELSE authorize([s EXCEPT !.messageChannel = event.ports[1]])

onPostMessageReceived(s, event) ==
  LET lmsHost == getLmsHost(s) IN
  IF ~Truthy(lmsHost) THEN s
  ELSE IF event.origin # lmsHost THEN s
  ELSE IF ~Truthy(event.type) THEN s
  ELSE IF event.type # "integration:hello" /\ event.type # "integration:port"
       THEN s
  ELSE IF Len(event.ports) = 0 THEN s
  ELSE IF s.messageChannel # Null THEN s
  ELSE authorize([s EXCEPT !.messageChannel = event.ports[1]])

\* ---------------------------------------------------- auth + subscriptions
subscribeToEvents(s) ==
  IF s.threw THEN s
  ELSE IF s.messageChannel = Null \/ ~s.isAuthorized THEN s
  ELSE ChannelPost(s, OutMsg("event:subscribe", Null))

\* ------------------------------------------------------------ registration
\* registerHelpProvider without the helpRegistered guard
registerHelpProvider_NoFlagGuard(s) ==
  IF s.threw THEN s
  ELSE IF s.messageChannel = Null \/ ~s.isAuthorized THEN s
  ELSE ChannelPost(s, [OutMsg("help:register", Null)
                         EXCEPT !.id = INTEGRATION_ID,
                                !.displayName = INTEGRATION_NAME,
                                !.contents = getIntegrationHost \o ICON_PATH])

registerHelpProvider(s) ==
  IF s.threw THEN s
  ELSE IF s.messageChannel = Null \/ ~s.isAuthorized \/ s.helpRegistered THEN s
  ELSE ChannelPost(s, [OutMsg("help:register", Null)
                         EXCEPT !.id = INTEGRATION_ID,
                                !.displayName = INTEGRATION_NAME,
                                !.contents = getIntegrationHost \o ICON_PATH])

registerBaseNavigationRoute(s) ==
  IF s.threw THEN s
  ELSE IF s.messageChannel = Null \/ ~s.isAuthorized \/ s.baseNavRegistered
       THEN s
  ELSE ChannelPost(s, [OutMsg("basenav:register", Null)
                         EXCEPT !.displayName = BASE_NAV_DISPLAY_NAME,
                                !.routeName = BASE_NAV_ROUTE_NAME,
                                !.contents = "placeholder"])

\* ------------------------------------------------------ panel open + render
renderWidgetIntoPortal(s, portalId) ==
  ChannelPost(s, [OutMsg("portal:render", Null)
                    EXCEPT !.portalId = portalId,
                           !.contents = getIntegrationHost \o WIDGET_PATH])

\* ensurePanelOpenAndRendered with one close callback id for every panel
ensurePanelOpenAndRendered_FixedCloseId(s, reason) ==
  IF s.threw THEN s
  ELSE IF s.messageChannel = Null \/ ~s.isAuthorized THEN s
  ELSE IF Truthy(s.currentPortalId)
       THEN renderWidgetIntoPortal(s, s.currentPortalId)
  ELSE LET corr == randomId(s, "mappy-panel")
           s1 == [s EXCEPT !.currentPanelCorrelationId = corr,
                           !.currentCloseCallbackId = "mappy-panel-close"]
       IN ChannelPost(s1, [OutMsg("portal:panel", Null)
                             EXCEPT !.correlationId = s1.currentPanelCorrelationId,
                                    !.callbackId = s1.currentCloseCallbackId])

\* ensurePanelOpenAndRendered without the "already open" re-render branch
ensurePanelOpenAndRendered_AlwaysOpen(s, reason) ==
  IF s.threw THEN s
  ELSE IF s.messageChannel = Null \/ ~s.isAuthorized THEN s
  ELSE LET corr == randomId(s, "mappy-panel")
           s1 == [s EXCEPT !.currentPanelCorrelationId = corr,
                           !.currentCloseCallbackId = corr \o "-close"]
       IN ChannelPost(s1, [OutMsg("portal:panel", Null)
                             EXCEPT !.correlationId = s1.currentPanelCorrelationId,
                                    !.callbackId = s1.currentCloseCallbackId])

ensurePanelOpenAndRendered(s, reason) ==
  IF s.threw THEN s
  ELSE IF s.messageChannel = Null \/ ~s.isAuthorized THEN s
  ELSE IF Truthy(s.currentPortalId)
       THEN renderWidgetIntoPortal(s, s.currentPortalId)
  ELSE LET corr == randomId(s, "mappy-panel")
           s1 == [s EXCEPT !.currentPanelCorrelationId = corr,
                           !.currentCloseCallbackId = corr \o "-close"]
       IN ChannelPost(s1, [OutMsg("portal:panel", Null)
                             EXCEPT !.correlationId = s1.currentPanelCorrelationId,
                                    !.callbackId = s1.currentCloseCallbackId])

\* ----------------------------------------------------------- event handlers
\* handleHelpRequest acknowledging only when the client is authorized
handleHelpRequest_AckWhenAuthorized(s, message) ==
  IF ~s.isAuthorized THEN s
  ELSE ensurePanelOpenAndRendered(
         ChannelPost(s, [OutMsg("help:request:response", Null)
                           EXCEPT !.correlationId = message.correlationId]),
         "help")

handleHelpRequest(s, message) ==
  LET s1 == ChannelPost(s, [OutMsg("help:request:response", Null)
                              EXCEPT !.correlationId = message.correlationId])
  IN IF OPEN_PANEL_WHEN_HELP_MENU_CLICKED
     THEN ensurePanelOpenAndRendered(s1, "help")
     ELSE s1

\* handleRouteEvent keeping the flag when the user leaves the route
handleRouteEvent_NoReset(s, message) ==
  IF message.routeName # BASE_NAV_ROUTE_NAME THEN s
  ELSE IF ~OPEN_PANEL_WHEN_BASE_NAV_ROUTE_ENTERED THEN s
  ELSE IF s.openedFromBaseNavThisVisit THEN s
  ELSE ensurePanelOpenAndRendered(
         [s EXCEPT !.openedFromBaseNavThisVisit = TRUE], "basenav-route")

\* handleRouteEvent without the once-per-visit gate
handleRouteEvent_NoVisitFlag(s, message) ==
  IF message.routeName # BASE_NAV_ROUTE_NAME
  THEN [s EXCEPT !.openedFromBaseNavThisVisit = FALSE]
  ELSE ensurePanelOpenAndRendered(
         [s EXCEPT !.openedFromBaseNavThisVisit = TRUE], "basenav-route")

handleRouteEvent(s, message) ==
  IF message.routeName # BASE_NAV_ROUTE_NAME
  THEN [s EXCEPT !.openedFromBaseNavThisVisit = FALSE]
  ELSE IF ~OPEN_PANEL_WHEN_BASE_NAV_ROUTE_ENTERED THEN s
  ELSE IF s.openedFromBaseNavThisVisit THEN s
  ELSE ensurePanelOpenAndRendered(
         [s EXCEPT !.openedFromBaseNavThisVisit = TRUE], "basenav-route")

\* ----------------------------------------------- message router (from Ultra)
\* the branches of onMessageFromUltra, one operator each

\* the authorization branch without the base-navigation registration
OnAuthorized_NoBaseNav(s, message) ==
  registerHelpProvider(subscribeToEvents([s EXCEPT !.isAuthorized = TRUE]))

OnAuthorized(s, message) ==
  registerBaseNavigationRoute(
    registerHelpProvider(
      subscribeToEvents([s EXCEPT !.isAuthorized = TRUE])))

\* the unauthorize branch asking for authorization again
OnUnauthorized_Retry(s, message) ==
  authorize([s EXCEPT !.isAuthorized = FALSE,
                      !.helpRegistered = FALSE,
                      !.baseNavRegistered = FALSE])

OnUnauthorized(s, message) ==
  [s EXCEPT !.isAuthorized = FALSE,
            !.helpRegistered = FALSE,
            !.baseNavRegistered = FALSE]

\* the help:register branch registering again on a failure status
OnHelpRegisterResponse_RetryOnFailure(s, message) ==
  registerHelpProvider([s EXCEPT !.helpRegistered = (message.status = "success")])

OnHelpRegisterResponse(s, message) ==
  [s EXCEPT !.helpRegistered = (message.status = "success")]

OnBaseNavRegisterResponse(s, message) ==
  [s EXCEPT !.baseNavRegistered = (message.status = "success")]

\* the portal:panel:response branch without the correlation id test
OnPanelResponse_AnyCorrelationId(s, message) ==
  IF message.status # "success"
  THEN [s EXCEPT !.currentPortalId = Null]
  ELSE renderWidgetIntoPortal(
         [s EXCEPT !.currentPortalId = message.portalId], message.portalId)

\* the success branch tracking the portal without rendering into it
OnPanelResponse_NoRender(s, message) ==
  IF ~Truthy(s.currentPanelCorrelationId)
     \/ message.correlationId # s.currentPanelCorrelationId
  THEN s
  ELSE IF message.status # "success"
       THEN [s EXCEPT !.currentPortalId = Null]
  ELSE [s EXCEPT !.currentPortalId = message.portalId]

OnPanelResponse(s, message) ==
  IF ~Truthy(s.currentPanelCorrelationId)
     \/ message.correlationId # s.currentPanelCorrelationId
  THEN s
  ELSE IF message.status # "success"
       THEN [s EXCEPT !.currentPortalId = Null]
  ELSE renderWidgetIntoPortal(
         [s EXCEPT !.currentPortalId = message.portalId], message.portalId)

\* the portal:callback branch clearing the ids and keeping the portal id
OnPortalCallback_KeepPortalId(s, message) ==
  IF message.callbackId = s.currentCloseCallbackId
  THEN [s EXCEPT !.currentPanelCorrelationId = Null,
                 !.currentCloseCallbackId = Null]
  ELSE s

\* the portal:callback branch clearing the panel on any callback id
OnPortalCallback_AnyCallback(s, message) ==
  [s EXCEPT !.currentPortalId = Null,
            !.currentPanelCorrelationId = Null,
            !.currentCloseCallbackId = Null]

OnPortalCallback(s, message) ==
  IF message.callbackId = s.currentCloseCallbackId
  THEN [s EXCEPT !.currentPortalId = Null,
                 !.currentPanelCorrelationId = Null,
                 !.currentCloseCallbackId = Null]
  ELSE s

onMessageFromUltra(s, message) ==
  IF ~Truthy(message.type) THEN s
  ELSE IF message.type = "authorization:authorize" THEN OnAuthorized(s, message)
  ELSE IF message.type = "authorization:unauthorize"
       THEN OnUnauthorized(s, message)
  ELSE IF message.type = "help:register" THEN OnHelpRegisterResponse(s, message)
  ELSE IF message.type = "basenav:register"
       THEN OnBaseNavRegisterResponse(s, message)
  ELSE IF message.type = "event:event"
       THEN IF message.eventType = "help:request"
            THEN handleHelpRequest(s, message)
            ELSE IF message.eventType = "route"
                 THEN handleRouteEvent(s, message)
                 ELSE s
  ELSE IF message.type = "portal:panel:response" THEN OnPanelResponse(s, message)
  ELSE IF message.type = "portal:callback" THEN OnPortalCallback(s, message)
  ELSE s

\* ------------------------------------------------------------ inbound sets
\* every id randomId("mappy-panel") can produce within the clock bound
PanelCorrelationIds ==
  {"mappy-panel-" \o ToString(t) \o "-" \o r : t \in Timestamps, r \in RandomValues}

WindowEvents ==
  {WinEvent(o, ty, ps) :
     o \in Origins,
     ty \in {Undefined, "integration:hello", "integration:port", "other"},
     ps \in {<<>>} \cup {<<p>> : p \in Ports}}

\* handshake replies, from the two origins a host source can name
HandshakeReplies ==
  {WinEvent(o, ty, <<p>>) :
     o \in {"https://lms", "https://ref"},
     ty \in {"integration:hello", "integration:port"},
     p \in Ports}

ChannelMessages ==
  {InMsg(Undefined), InMsg("authorization:unauthorize"),
   InMsg("portal:render:response")}
  \cup {[InMsg("authorization:authorize") EXCEPT !.status = st] :
          st \in {Undefined, "success", "error"}}
  \cup {[InMsg(ty) EXCEPT !.status = st] :
          ty \in {"help:register", "basenav:register"},
          st \in {"success", "error"}}
  \cup {[InMsg("event:event") EXCEPT !.eventType = "help:request",
                                     !.correlationId = c] :
          c \in HelpCorrelationIds}
  \cup {[InMsg("event:event") EXCEPT !.eventType = "route", !.routeName = rn] :
          rn \in {BASE_NAV_ROUTE_NAME, "course"}}
  \cup {[InMsg("event:event") EXCEPT !.eventType = "portal:new"]}
  \cup {[InMsg("portal:panel:response") EXCEPT !.correlationId = c,
                                               !.status = st,
                                               !.portalId = pid] :
          c \in PanelCorrelationIds, st \in {"success", "error"},
          pid \in PortalIds \cup {Undefined}}
  \cup {[InMsg("portal:callback") EXCEPT !.callbackId = c \o "-close"] :
          c \in PanelCorrelationIds}
  \cup {[InMsg("portal:callback") EXCEPT !.callbackId = Null]}

\* the host messages that start a session and invoke the entry once
SessionOpeners ==
  {InMsg("authorization:unauthorize"),
   [InMsg("authorization:authorize") EXCEPT !.status = "success"],
   [InMsg("help:register") EXCEPT !.status = "success"],
   [InMsg("event:event") EXCEPT !.eventType = "help:request",
                                !.correlationId = "h1"],
   [InMsg("event:event") EXCEPT !.eventType = "route",
                                !.routeName = BASE_NAV_ROUTE_NAME]}

\* ----------------------------------------------------------------- actions
CountOf(msgs, ty) == Cardinality({i \in DOMAIN msgs : msgs[i].type = ty})

\* the handler's result t becomes the next state; ev is the event it handled
Commit(t, ev) ==
  /\ messageChannel' = t.messageChannel
  /\ isAuthorized' = t.isAuthorized
  /\ helpRegistered' = t.helpRegistered
  /\ baseNavRegistered' = t.baseNavRegistered
  /\ currentPortalId' = t.currentPortalId
  /\ currentPanelCorrelationId' = t.currentPanelCorrelationId
  /\ currentCloseCallbackId' = t.currentCloseCallbackId
  /\ openedFromBaseNavThisVisit' = t.openedFromBaseNavThisVisit
  /\ lastIn' = ev
  /\ out' = t.out
  /\ threw' = t.threw
  /\ nSent' = [ty \in CountedTypes |-> nSent[ty] + CountOf(t.out, ty)]
  /\ \A ty \in CountedTypes : nSent'[ty] <= MaxSent
  /\ hostSpoke' = (hostSpoke \/ ev.src = "port")
  /\ helpAwaiting' =
       \/ CountOf(t.out, "help:register") > 0
       \/ helpAwaiting /\ ~(ev.src = "port" /\ ev.type = "help:register")
  /\ baseNavAwaiting' =
       \/ CountOf(t.out, "basenav:register") > 0
       \/ baseNavAwaiting /\ ~(ev.src = "port" /\ ev.type = "basenav:register")
  /\ helpAcked' =
       (helpAcked
        \/ (ev.src = "port" /\ ev.type = "help:register"
            /\ ev.status = "success" /\ helpAwaiting))
  /\ baseNavAcked' =
       (baseNavAcked
        \/ (ev.src = "port" /\ ev.type = "basenav:register"
            /\ ev.status = "success" /\ baseNavAwaiting))
  /\ everUnauthorized' =
       (everUnauthorized
        \/ (ev.src = "port" /\ ev.type = "authorization:unauthorize"))
  /\ panelClosed' =
       (/\ ev.src = "port" /\ ev.type = "portal:callback"
        /\ ev.callbackId = currentCloseCallbackId
        /\ Truthy(currentPortalId))
  /\ visitReset' =
       (/\ ev.src = "port" /\ ev.type = "event:event"
        /\ ev.eventType = "route"
        /\ openedFromBaseNavThisVisit /\ ~t.openedFromBaseNavThisVisit)
  /\ UNCHANGED <<envVars, part7Vars, script1Vars, part1Vars>>

\* script load: addEventListener("message", ...) then startHandshake()
Boot ==
  /\ ~booted
  /\ booted' = TRUE
  /\ Commit(startHandshake(Cur), [src |-> "boot"])

\* window.addEventListener("message", onPostMessageReceived): one event
DeliverWindow(events) ==
  /\ booted
  /\ \E event \in events : Commit(onPostMessageReceived(Cur, event), event)
  /\ UNCHANGED booted

\* LoggedMessageChannel.onMessage: one message on the adopted port
\* (port.onmessage is set by the constructor, so only after adoption)
DeliverPort(messages) ==
  /\ booted
  /\ messageChannel # Null
  /\ \E message \in messages :
       \E t \in Timestamps,
          r \in IF message.type = "event:event" THEN RandomValues ELSE {Undefined} :
         Commit(onMessageFromUltra([Cur EXCEPT !.dateNow = t, !.mathRandom = r],
                                   message), message)
  /\ UNCHANGED booted

\* the session: handshake replies and every host message
WindowMessage == DeliverWindow(HandshakeReplies)

PortMessage == DeliverPort(ChannelMessages)

\* the handshake: every window event and the messages that open a session
AnyWindowMessage == DeliverWindow(WindowEvents)

OpeningPortMessage == DeliverPort(SessionOpeners)

\* ===================================================== src/unnamed/part_007
\* The variant of the client with a gated, debounced panel open.  Its step
\* record holds the page environment, the module-level variables of
\* part_007, Date.now() and Math.random() of the running handler, the
\* setTimeout callbacks the handler scheduled and the messages it sent.

BASE_NAV_OPEN_CALLBACK_ID == "ask-mappy-open"

\* the module-level variables of part_007 when the script has been loaded
P7_Loaded ==
  [port |-> Null, authorized |-> FALSE, helpRegistered |-> FALSE,
   baseNavRegistered |-> FALSE, panelPortalId |-> Null,
   panelCorrelationId |-> Null, closeCallbackId |-> Null,
   panelOpening |-> FALSE, lastPanelOpenAt |-> 0, baseNavPortalId |-> Null]

P7_Cur ==
  [windowLmsHost |-> windowLmsHost, referrer |-> referrer,
   windowToken |-> windowToken, storedToken |-> storedToken,
   port |-> part7.port, authorized |-> part7.authorized,
   helpRegistered |-> part7.helpRegistered,
   baseNavRegistered |-> part7.baseNavRegistered,
   panelPortalId |-> part7.panelPortalId,
   panelCorrelationId |-> part7.panelCorrelationId,
   closeCallbackId |-> part7.closeCallbackId,
   panelOpening |-> part7.panelOpening,
   lastPanelOpenAt |-> part7.lastPanelOpenAt,
   baseNavPortalId |-> part7.baseNavPortalId,
   dateNow |-> clock, mathRandom |-> Undefined, timeouts |-> 0, out |-> <<>>]

P7_getIntegrationOrigin == "https://tool"

P7_getWidgetUrl == P7_getIntegrationOrigin \o "/widget.html"

P7_getLmsHost(s) ==
  IF IsString(s.windowLmsHost) /\ Truthy(Trim(s.windowLmsHost))
  THEN Trim(s.windowLmsHost)
  ELSE IF Truthy(s.referrer) /\ UrlOrigin(s.referrer) # "<throws>"
       THEN UrlOrigin(s.referrer)
       ELSE ""

P7_getToken(s) ==
  IF IsString(s.windowToken) /\ Truthy(Trim(s.windowToken))
  THEN Trim(s.windowToken)
  ELSE Trim(IF Truthy(s.storedToken) THEN s.storedToken ELSE "")

P7_rid(s, prefix) ==
  prefix \o "-" \o ToString(s.dateNow) \o "-" \o s.mathRandom

\* send(message): nothing without a port
P7_send(s, m) ==
  IF s.port = Null THEN s
  ELSE [s EXCEPT !.out = Append(@, [m EXCEPT !.via = s.port])]

P7_startHandshake(s) ==
  LET lmsHost == P7_getLmsHost(s) IN
  IF ~Truthy(lmsHost) THEN s
  ELSE [s EXCEPT !.out = Append(@, [OutMsg("integration:hello", "window")
                                      EXCEPT !.target = lmsHost \o "/*"])]

P7_authorize(s) ==
  LET token == P7_getToken(s) IN
  IF ~Truthy(token) THEN s
  ELSE P7_send(s, [OutMsg("authorization:authorize", Null) EXCEPT !.token = token])

\* the window "message" listener
P7_onWindowMessage(s, event) ==
  LET lmsHost == P7_getLmsHost(s) IN
  IF ~Truthy(lmsHost) THEN s
  ELSE IF event.origin # lmsHost THEN s
  ELSE IF ~Truthy(event.type) THEN s
  ELSE IF event.type # "integration:hello" /\ event.type # "integration:port"
       THEN s
  ELSE IF Len(event.ports) = 0 THEN s
  ELSE IF s.port # Null THEN s
  ELSE P7_authorize([s EXCEPT !.port = event.ports[1]])

P7_subscribeEvents(s) == P7_send(s, OutMsg("event:subscribe", Null))

P7_registerHelpProvider(s) ==
  IF s.helpRegistered THEN s
  ELSE P7_send(s, [OutMsg("help:register", Null)
                     EXCEPT !.id = "noodlefactory-help",
                            !.displayName = "Ask Mappy"])

P7_registerBaseNav(s) ==
  IF s.baseNavRegistered THEN s
  ELSE P7_send(s, [OutMsg("basenav:register", Null)
                     EXCEPT !.displayName = "Ask Mappy",
                            !.routeName = "ask-mappy"])

P7_renderBaseNav(s) ==
  IF ~Truthy(s.baseNavPortalId) THEN s
  ELSE P7_send(s, [OutMsg("portal:render", Null)
                     EXCEPT !.portalId = s.baseNavPortalId,
                            !.callbackId = BASE_NAV_OPEN_CALLBACK_ID,
                            !.contents = "button"])

P7_renderWidget(s, targetPortalId) ==
  P7_send(s, [OutMsg("portal:render", Null)
                EXCEPT !.portalId = targetPortalId,
                       !.contents = P7_getWidgetUrl])

\* openPanel without the panelOpening gate, the debounce alone remaining
P7_openPanel_NoGate(s, reason) ==
  IF ~s.authorized THEN s
  ELSE IF Truthy(s.panelPortalId) THEN P7_renderWidget(s, s.panelPortalId)
  ELSE IF s.dateNow - s.lastPanelOpenAt < 250 THEN s
  ELSE LET corr == P7_rid(s, "ask-mappy-panel")
           s1 == [s EXCEPT !.panelOpening = TRUE,
                           !.lastPanelOpenAt = s.dateNow,
                           !.panelCorrelationId = corr,
                           !.closeCallbackId = corr \o "-close"]
       IN P7_send(s1, [OutMsg("portal:panel", Null)
                         EXCEPT !.correlationId = s1.panelCorrelationId,
                                !.callbackId = s1.closeCallbackId])

P7_openPanel(s, reason) ==
  IF ~s.authorized THEN s
  ELSE IF Truthy(s.panelPortalId) THEN P7_renderWidget(s, s.panelPortalId)
  ELSE IF s.panelOpening THEN s
  ELSE IF s.dateNow - s.lastPanelOpenAt < 250 THEN s
  ELSE LET corr == P7_rid(s, "ask-mappy-panel")
           s1 == [s EXCEPT !.panelOpening = TRUE,
                           !.lastPanelOpenAt = s.dateNow,
                           !.panelCorrelationId = corr,
                           !.closeCallbackId = corr \o "-close"]
       IN P7_send(s1, [OutMsg("portal:panel", Null)
                         EXCEPT !.correlationId = s1.panelCorrelationId,
                                !.callbackId = s1.closeCallbackId])

P7_handleHelpRequest(s, msg) ==
  P7_openPanel(
    P7_send(s, [OutMsg("help:request:response", Null)
                  EXCEPT !.correlationId = msg.correlationId]),
    "help-menu")

P7_handlePortalNew(s, msg) ==
  IF msg.selector = "base.navigation.button"
  THEN P7_renderBaseNav([s EXCEPT !.baseNavPortalId = msg.portalId])
  ELSE s

P7_handlePortalRemove(s, msg) ==
  IF msg.portalId = s.baseNavPortalId
  THEN [s EXCEPT !.baseNavPortalId = Null]
  ELSE s

\* the portal:panel:response branch of onPortMessage
P7_OnPanelResponse(s, msg) ==
  IF ~Truthy(s.panelCorrelationId) \/ msg.correlationId # s.panelCorrelationId
  THEN s
  ELSE IF msg.status # "success"
       THEN [s EXCEPT !.panelOpening = FALSE,
                      !.panelPortalId = Null,
                      !.panelCorrelationId = Null,
                      !.closeCallbackId = Null]
  ELSE P7_renderWidget([s EXCEPT !.panelOpening = FALSE,
                                 !.panelPortalId = msg.portalId],
                       msg.portalId)

\* the portal:callback branch of onPortMessage; the base-nav click runs
\* openPanel from a setTimeout(..., 0) callback
P7_OnPortalCallback(s, msg) ==
  IF msg.callbackId = BASE_NAV_OPEN_CALLBACK_ID
  THEN [s EXCEPT !.timeouts = @ + 1]
  ELSE IF msg.callbackId = s.closeCallbackId
       THEN [s EXCEPT !.panelPortalId = Null,
                      !.panelCorrelationId = Null,
                      !.closeCallbackId = Null,
                      !.panelOpening = FALSE]
  ELSE s

P7_onPortMessage(s, msg) ==
  IF ~Truthy(msg.type) THEN s
  ELSE IF msg.type = "authorization:authorize"
       THEN P7_registerBaseNav(
              P7_registerHelpProvider(
                P7_subscribeEvents([s EXCEPT !.authorized = TRUE])))
  ELSE IF msg.type = "authorization:unauthorize"
       THEN [s EXCEPT !.authorized = FALSE,
                      !.helpRegistered = FALSE,
                      !.baseNavRegistered = FALSE]
  ELSE IF msg.type = "help:register"
       THEN [s EXCEPT !.helpRegistered = (msg.status = "success")]
  ELSE IF msg.type = "basenav:register"
       THEN [s EXCEPT !.baseNavRegistered = (msg.status = "success")]
  ELSE IF msg.type = "event:event"
       THEN IF msg.eventType = "help:request" THEN P7_handleHelpRequest(s, msg)
            ELSE IF msg.eventType = "portal:new" THEN P7_handlePortalNew(s, msg)
            ELSE IF msg.eventType = "portal:remove"
                 THEN P7_handlePortalRemove(s, msg)
            ELSE s
  ELSE IF msg.type = "portal:panel:response" THEN P7_OnPanelResponse(s, msg)
  ELSE IF msg.type = "portal:callback" THEN P7_OnPortalCallback(s, msg)
  ELSE s

\* the setTimeout callback of the base-nav click
P7_onClickTimeout(s) == P7_openPanel(s, "base-nav-click")

\* ---------------------------------------------------- part_007: the host
\* an inbound message of part_007's port (portal:new carries a selector)
P7_InMsg(type) == [selector |-> Undefined] @@ InMsg(type)

\* Math.random().toString(16).slice(2) at the calls of rid
P7_RandomValues == {"a"}

\* a correlation id no request of the session carries
StalePanelId == "ask-mappy-panel-0-a"

Range(seq) == {seq[i] : i \in DOMAIN seq}

\* seq without the first occurrence of x
RemoveFirst(seq, x) ==
  IF x \notin Range(seq) THEN seq
  ELSE LET k == CHOOSE i \in DOMAIN seq :
                  seq[i] = x /\ \A j \in 1..(i - 1) : seq[j] # x
       IN [i \in 1..(Len(seq) - 1) |-> IF i < k THEN seq[i] ELSE seq[i + 1]]

\* the handshake replies of the host, each with a port of its own
P7_HandshakeReplies ==
  {WinEvent("https://lms", "integration:hello", <<p>>) : p \in Ports}

\* what a host that opens no panel sends: authorization, registration
\* replies, invocations, the base-navigation slot and stray messages
P7_SilentHostMessages ==
  {P7_InMsg(Undefined), P7_InMsg("authorization:authorize"),
   P7_InMsg("authorization:unauthorize")}
  \cup {[P7_InMsg(ty) EXCEPT !.status = st] :
          ty \in {"help:register", "basenav:register"},
          st \in {"success", "error"}}
  \cup {[P7_InMsg("event:event") EXCEPT !.eventType = "help:request",
                                        !.correlationId = "h1"]}
  \cup {[P7_InMsg("event:event") EXCEPT !.eventType = "portal:new",
                                        !.selector = sel,
                                        !.portalId = "N1"] :
          sel \in {"base.navigation.button", "course.outline"}}
  \cup {[P7_InMsg("event:event") EXCEPT !.eventType = "portal:remove",
                                        !.portalId = "N1"]}
  \cup {[P7_InMsg("portal:callback") EXCEPT !.callbackId = c] :
          c \in {BASE_NAV_OPEN_CALLBACK_ID, StalePanelId \o "-close"}}

\* the replies to portal:panel requests: for the tracked correlation id, for
\* every unanswered request and for a stale id
P7_PanelReplies ==
  {[P7_InMsg("portal:panel:response") EXCEPT !.correlationId = c,
                                             !.status = st,
                                             !.portalId = pid] :
     c \in ({part7.panelCorrelationId} \cup Range(awaitingPanel)
            \cup {StalePanelId}) \ {Null},
     st \in {"success", "error"},
     pid \in {"P1", Undefined}}

\* the close notification of the tracked panel: the host sends it only for a
\* panel whose open request it has answered
P7_CloseNotifications ==
  {[P7_InMsg("portal:callback") EXCEPT !.callbackId = part7.closeCallbackId] :
     x \in IF Truthy(part7.closeCallbackId)
              /\ part7.panelCorrelationId \notin Range(awaitingPanel)
           THEN {1} ELSE {}}

\* ------------------------------------------------- part_007: the actions
P7_PanelRequests(msgs) ==
  SelectSeq(msgs, LAMBDA m : m.type = "portal:panel")

P7_Commit(t, ev) ==
  /\ part7' = [f \in DOMAIN part7 |-> t[f]]
  /\ pendingTimeouts' =
       pendingTimeouts + t.timeouts - (IF ev.src = "timeout" THEN 1 ELSE 0)
  /\ pendingTimeouts' <= MaxTimeouts
  /\ awaitingPanel' =
       (IF ev.src = "port" /\ ev.type = "portal:panel:response"
        THEN RemoveFirst(awaitingPanel, ev.correlationId)
        ELSE awaitingPanel)
       \o [i \in DOMAIN P7_PanelRequests(t.out) |->
             P7_PanelRequests(t.out)[i].correlationId]
  /\ lastIn' = ev
  /\ out' = t.out
  /\ UNCHANGED <<envVars, progVars, clock, threw, nSent, hostSpoke,
                 helpAwaiting, baseNavAwaiting, helpAcked, baseNavAcked,
                 everUnauthorized, panelClosed, visitReset, script1Vars, part1Vars>>

\* script load: the window listener is added, then startHandshake()
P7_Boot ==
  /\ ~booted
  /\ booted' = TRUE
  /\ P7_Commit(P7_startHandshake(P7_Cur), [src |-> "boot"])

P7_WindowMessage ==
  /\ booted
  /\ \E event \in P7_HandshakeReplies :
       P7_Commit(P7_onWindowMessage(P7_Cur, event), event)
  /\ UNCHANGED booted

\* port.onmessage = onPortMessage: one message on the adopted port
P7_DeliverPort(messages) ==
  /\ booted
  /\ part7.port # Null
  /\ \E message \in messages :
       \E r \in IF message.type = "event:event" THEN P7_RandomValues
                                                  ELSE {Undefined} :
         P7_Commit(P7_onPortMessage([P7_Cur EXCEPT !.mathRandom = r], message),
                   message)
  /\ UNCHANGED booted

P7_HostMessage == P7_DeliverPort(P7_SilentHostMessages)

P7_PanelReply == P7_DeliverPort(P7_PanelReplies)

P7_CloseNotification == P7_DeliverPort(P7_CloseNotifications)

\* a pending setTimeout(..., 0) callback runs
P7_ClickTimeout ==
  /\ pendingTimeouts > 0
  /\ \E r \in P7_RandomValues :
       P7_Commit(P7_onClickTimeout([P7_Cur EXCEPT !.mathRandom = r]),
                 [src |-> "timeout"])
  /\ UNCHANGED booted

\* time passes between two events
P7_Tick ==
  /\ booted
  /\ \E d \in TickSteps : clock' = clock + d
  /\ clock' <= MaxNow
  /\ lastIn' = [src |-> "tick"]
  /\ out' = <<>>
  /\ UNCHANGED <<envVars, booted, progVars, threw, nSent, hostSpoke,
                 helpAwaiting, baseNavAwaiting, helpAcked, baseNavAcked,
                 everUnauthorized, panelClosed, visitReset, part7, pendingTimeouts, awaitingPanel,
                 script1Vars, part1Vars>>

\* =========================================== src/public/uef.js, first script
\* The variant of the client that authorizes with a token refresh and one
\* retry.  Its async functions are tasks: a task is suspended at an await
\* (a waitFor, a sleep or the fetch of the refresh endpoint) and resumed by
\* the event the await is for; between two awaits a task runs to completion.

PANEL_CORRELATION_ID == "noodlefactory-help-panel"

\* channel, portalId, lastAuthorizeAttemptAt when the script has been loaded;
\* listeners: the ports onMessageFromUltra has been added to
S1_Loaded ==
  [channel |-> Null, portalId |-> Null, lastAuthorizeAttemptAt |-> 0,
   listeners |-> {}]

\* <<window.__token, localStorage uef_user_token, uef_refresh_token,
\*   uef_token_expires_at>> as the boot page leaves them
S1_TokenSources ==
  {<<"tokA", Null, Null, Null>>,
   <<"tokA", Null, "refA", "1">>,
   <<Undefined, "tokB", "refA", Null>>,
   <<Undefined, Null, "refA", "soon">>,
   <<Undefined, Null, Null, Null>>}

\* what POST /oauth/refresh answers: resp.ok and the fields of the JSON
\* body; failed: the fetch itself rejects
S1_FetchResults ==
  {[failed |-> TRUE, ok |-> FALSE, access_token |-> Undefined,
    refresh_token |-> Undefined, expires_in |-> 0],
   [failed |-> FALSE, ok |-> FALSE, access_token |-> Undefined,
    refresh_token |-> Undefined, expires_in |-> 0],
   [failed |-> FALSE, ok |-> TRUE, access_token |-> Undefined,
    refresh_token |-> Undefined, expires_in |-> 0],
   [failed |-> FALSE, ok |-> TRUE, access_token |-> "tokR",
    refresh_token |-> "refR", expires_in |-> 3600]}

S1_Cur ==
  [token |-> page1.token, access |-> page1.access, refresh |-> page1.refresh,
   expiresAt |-> page1.expiresAt, learnHost |-> page1.learnHost,
   channel |-> script1.channel, portalId |-> script1.portalId,
   lastAuthorizeAttemptAt |-> script1.lastAuthorizeAttemptAt,
   listeners |-> script1.listeners,
   tasks |-> tasks1, dateNow |-> clock, out |-> <<>>, threw |-> FALSE]

\* a call of the async bootstrap function of onHandshake ("init") or of
\* onMessageFromUltra for a help request ("help"), before its first step.
\* pc: the await the task is suspended at; port: the port its waitFor
\* listener is on; since: Date.now() when it was suspended; token, res1,
\* refreshed, res2, ok: the locals of authorizeWithUltra and its caller;
\* nAuth, nSub, nReg: the authorize, subscribe and help:register requests the
\* task has posted
S1_NewTask(kind) ==
  [kind |-> kind, pc |-> "start", port |-> Null, since |-> 0,
   token |-> Undefined, res1 |-> Undefined, refreshed |-> FALSE,
   res2 |-> Undefined, ok |-> "pending", nAuth |-> 0, nSub |-> 0, nReg |-> 0]

\* the result of a waitFor that timed out (.catch(() => null))
S1_NoReply == InMsg(Null)

\* ------------------------------------------------------------- helpers
S1_origin == "https://tool"

\* new URL(fromStorage).origin, or "*"
S1_getLearnHostOrigin(s) ==
  IF Truthy(s.learnHost) THEN UrlOrigin(s.learnHost) ELSE "*"

S1_getAccessToken(s) ==
  IF Truthy(s.token) THEN s.token
  ELSE IF Truthy(s.access) THEN s.access ELSE ""

S1_getRefreshToken(s) == IF Truthy(s.refresh) THEN s.refresh ELSE ""

\* the numbers localStorage strings of the model can stand for
S1_Numbers == {1} \cup {t + 3600 * 1000 : t \in ClockValues}

\* Number(raw): "<NaN>" when raw is no number
S1_Number(raw) ==
  IF \E n \in S1_Numbers : ToString(n) = raw
  THEN CHOOSE n \in S1_Numbers : ToString(n) = raw
  ELSE IF raw = "0" THEN 0 ELSE -1

S1_setAccessToken(s, token, expiresInSeconds) ==
  IF ~Truthy(token) THEN s
  ELSE [s EXCEPT !.access = token,
                 !.expiresAt = IF expiresInSeconds > 0
                               THEN ToString(s.dateNow + expiresInSeconds * 1000)
                               ELSE @]

S1_setRefreshToken(s, token) ==
  IF ~Truthy(token) THEN s ELSE [s EXCEPT !.refresh = token]

\* Number(raw || "0"), 0 when that is not finite (-1 stands for NaN)
S1_getExpiresAt(s) ==
  LET v == S1_Number(IF Truthy(s.expiresAt) THEN s.expiresAt ELSE "0")
  IN IF v = -1 THEN 0 ELSE v

S1_isTokenProbablyExpired(s) ==
  LET expiresAt == S1_getExpiresAt(s) IN
  IF expiresAt = 0 THEN FALSE ELSE s.dateNow >= expiresAt - 60000

\* post(msg): throws without a channel
S1_post(s, m) ==
  IF s.threw THEN s
  ELSE IF s.channel = Null THEN [s EXCEPT !.threw = TRUE]
  ELSE [s EXCEPT !.out = Append(@, [m EXCEPT !.via = s.channel])]

\* the task suspends at an await
S1_suspend(s, i, pc) ==
  [s EXCEPT !.tasks[i].pc = pc,
            !.tasks[i].port = IF pc \in {"wait1", "wait2", "waitReg", "waitPanel"}
                              THEN s.channel ELSE Null,
            !.tasks[i].since = s.dateNow]

\* the task's async function returns (or throws into the caller's catch)
S1_finish(s, i, ok) ==
  [s EXCEPT !.tasks[i].pc = "done", !.tasks[i].port = Null,
            !.tasks[i].ok = ok, !.threw = FALSE]

\* the body of refreshAccessTokenIfPossible after the fetch: result is the
\* response
S1_refreshAccessTokenIfPossible(s, result) ==
  IF ~result.ok THEN s
  ELSE S1_setRefreshToken(
         S1_setAccessToken(s, result.access_token, result.expires_in),
         result.refresh_token)

\* ------------------------------------- onHandshake's bootstrap, step by step
\* lines 368-373: authorizeWithUltra returned true
S1_flowAuthorized(s, i) ==
  LET s1 == S1_post([s EXCEPT !.tasks[i].ok = "true"],
                    OutMsg("event:subscribe", Null))
      s2 == S1_post([s1 EXCEPT !.tasks[i].nSub = @ + 1],
                    [OutMsg("help:register", Null)
                       EXCEPT !.id = "noodlefactory-help",
                              !.displayName = "Noodle Factory"])
      s3 == [s2 EXCEPT !.tasks[i].nReg = @ + 1]
  IN IF s3.threw THEN S1_finish(s3, i, "threw")
     ELSE S1_suspend(s3, i, "waitReg")

\* lines 169-185: token is the local of authorizeWithUltra
S1_flowSendFirst(s, i, token) ==
  IF ~Truthy(token) THEN S1_finish(s, i, "false")
  ELSE LET s1 == S1_post([s EXCEPT !.tasks[i].token = token],
                         [OutMsg("authorization:authorize", Null)
                            EXCEPT !.token = token])
       IN IF s1.threw THEN S1_finish(s1, i, "threw")
          ELSE S1_suspend([s1 EXCEPT !.tasks[i].nAuth = @ + 1], i, "wait1")

\* lines 161-167
S1_flowReadToken(s, i) ==
  LET token == S1_getAccessToken(s) IN
  IF ~Truthy(token) /\ Truthy(S1_getRefreshToken(s))
  THEN S1_suspend(s, i, "refresh1")
  ELSE S1_flowSendFirst(s, i, token)

\* lines 154-159
S1_flowAfterSleep(s, i) ==
  LET s1 == [s EXCEPT !.lastAuthorizeAttemptAt = s.dateNow] IN
  IF S1_isTokenProbablyExpired(s1) /\ Truthy(S1_getRefreshToken(s1))
  THEN S1_suspend(s1, i, "refresh0")
  ELSE S1_flowReadToken(s1, i)

\* line 153
S1_flowStart(s, i) ==
  IF s.dateNow - s.lastAuthorizeAttemptAt < 2000
  THEN S1_suspend(s, i, "sleep")
  ELSE S1_flowAfterSleep(s, i)

\* lines 200-212: the refresh after a rejection has ended
S1_flowRetry(s, i, refreshed) ==
  LET newToken == S1_getAccessToken(s) IN
  IF ~refreshed THEN S1_finish(s, i, "false")
  ELSE IF ~Truthy(newToken) THEN S1_finish(s, i, "false")
  ELSE LET s1 == S1_post([s EXCEPT !.tasks[i].refreshed = TRUE],
                         [OutMsg("authorization:authorize", Null)
                            EXCEPT !.token = newToken])
       IN IF s1.threw THEN S1_finish(s1, i, "threw")
          ELSE S1_suspend([s1 EXCEPT !.tasks[i].nAuth = @ + 1], i, "wait2")

\* the first reply handled like a success whatever its type
S1_flowOnReply1_NoRejection(s, i, res) ==
  IF res.type = Null THEN S1_finish([s EXCEPT !.tasks[i].res1 = Null], i, "false")
  ELSE S1_flowAuthorized([s EXCEPT !.tasks[i].res1 = res.type], i)

\* lines 187-217: res is the first waitFor's result
S1_flowOnReply1(s, i, res) ==
  LET s1 == [s EXCEPT !.tasks[i].res1 = res.type] IN
  IF res.type = Null THEN S1_finish(s1, i, "false")
  ELSE IF res.type = "authorization:unauthorize"
       THEN IF ~Truthy(S1_getRefreshToken(s1))
            THEN S1_finish(s1, i, "false")
            ELSE S1_suspend(s1, i, "refresh2")
  ELSE S1_flowAuthorized(s1, i)

\* a second rejection answered by another refresh and retry
S1_flowOnReply2_RetryAgain(s, i, res2) ==
  LET s1 == [s EXCEPT !.tasks[i].res2 = res2.type] IN
  IF res2.type = "authorization:authorize" THEN S1_flowAuthorized(s1, i)
  ELSE IF res2.type = "authorization:unauthorize"
          /\ Truthy(S1_getRefreshToken(s1))
       THEN S1_suspend(s1, i, "refresh2")
  ELSE S1_finish(s1, i, "false")

\* line 214: res2 is the second waitFor's result
S1_flowOnReply2(s, i, res2) ==
  LET s1 == [s EXCEPT !.tasks[i].res2 = res2.type] IN
  IF res2.type = "authorization:authorize" THEN S1_flowAuthorized(s1, i)
  ELSE S1_finish(s1, i, "false")

\* lines 230-244: the result of registerHelpProvider is not used
S1_flowOnRegisterReply(s, i, res) == S1_finish(s, i, s.tasks[i].ok)

\* openHelpPanel giving up the channel when its wait ends without a reply
S1_helpOnPanelReply_DropChannel(s, i, res) ==
  IF res.type = Null THEN S1_finish([s EXCEPT !.channel = Null], i, "false")
  ELSE IF res.status # "success" \/ ~Truthy(res.portalId)
  THEN S1_finish(s, i, "false")
  ELSE LET s1 == S1_post([s EXCEPT !.portalId = res.portalId],
                         [OutMsg("portal:render", Null)
                            EXCEPT !.portalId = res.portalId,
                                   !.contents = S1_origin \o "/widget.html"])
       IN S1_finish(s1, i, IF s1.threw THEN "threw" ELSE "true")

\* lines 273-280 of openHelpPanel
S1_helpOnPanelReply(s, i, res) ==
  IF res.type = Null \/ res.status # "success" \/ ~Truthy(res.portalId)
  THEN S1_finish(s, i, "false")
  ELSE LET s1 == S1_post([s EXCEPT !.portalId = res.portalId],
                         [OutMsg("portal:render", Null)
                            EXCEPT !.portalId = res.portalId,
                                   !.contents = S1_origin \o "/widget.html"])
       IN S1_finish(s1, i, IF s1.threw THEN "threw" ELSE "true")

\* the fetch of the refresh endpoint a task awaits has ended
S1_flowOnFetch(s, i, result) ==
  IF result.failed THEN S1_finish(s, i, "threw")
  ELSE LET s1 == S1_refreshAccessTokenIfPossible(s, result) IN
       CASE s.tasks[i].pc = "refresh0" -> S1_flowReadToken(s1, i)
         [] s.tasks[i].pc = "refresh1" ->
              S1_flowSendFirst(s1, i, IF result.ok THEN S1_getAccessToken(s1)
                                      ELSE "")
         [] OTHER -> S1_flowRetry(s1, i, result.ok)

\* ------------------------------------------------------ waitFor listeners
S1_Waiting == {"wait1", "wait2", "waitReg", "waitPanel"}

\* the predicate of the waitFor the task is suspended at
S1_predicate(task, m) ==
  CASE task.pc \in {"wait1", "wait2"} ->
         m.type \in {"authorization:authorize", "authorization:unauthorize"}
    [] task.pc = "waitReg" -> m.type = "help:register:response"
    [] task.pc = "waitPanel" ->
         m.type = "portal:panel:response"
         /\ m.correlationId = PANEL_CORRELATION_ID
    [] OTHER -> FALSE

\* the task resumes with the result of its waitFor
S1_resume(s, i, res) ==
  CASE s.tasks[i].pc = "wait1" -> S1_flowOnReply1(s, i, res)
    [] s.tasks[i].pc = "wait2" -> S1_flowOnReply2(s, i, res)
    [] s.tasks[i].pc = "waitReg" -> S1_flowOnRegisterReply(s, i, res)
    [] s.tasks[i].pc = "waitPanel" -> S1_helpOnPanelReply(s, i, res)
    [] OTHER -> s

\* lines 283-304
S1_renderWidgetIntoPortal(s, pid) ==
  S1_post(s, [OutMsg("portal:render", Null)
                EXCEPT !.portalId = pid,
                       !.contents = S1_origin \o "/widget.html"])

\* lines 247-271 of openHelpPanel, up to its await
S1_openHelpPanel(s) ==
  IF Truthy(s.portalId) THEN S1_renderWidgetIntoPortal(s, s.portalId)
  ELSE LET s1 == S1_post(s, [OutMsg("portal:panel", Null)
                               EXCEPT !.correlationId = PANEL_CORRELATION_ID,
                                      !.callbackId = PANEL_CORRELATION_ID \o "-close"])
           i == Len(s1.tasks) + 1
       IN IF s1.threw THEN [s1 EXCEPT !.threw = FALSE]
          ELSE S1_suspend([s1 EXCEPT !.tasks = Append(@, S1_NewTask("help"))],
                          i, "waitPanel")

S1_onMessageFromUltra(s, data) ==
  IF data.type = "event:event" /\ data.eventType = "help:request"
  THEN LET s1 == S1_post(s, [OutMsg("help:request:response", Null)
                               EXCEPT !.correlationId = data.correlationId])
       IN IF s1.threw THEN [s1 EXCEPT !.threw = FALSE]
          ELSE S1_openHelpPanel(s1)
  ELSE IF data.type = "portal:callback"
          /\ data.callbackId = PANEL_CORRELATION_ID \o "-close"
       THEN [s EXCEPT !.portalId = Null]
  ELSE s

\* the waitFor listeners that were on the port when the message arrived run
\* in turn, from task i on; s0 is the state at the arrival
RECURSIVE S1_runListeners(_, _, _, _, _)
S1_runListeners(s, s0, i, p, m) ==
  IF i > Len(s0.tasks) THEN s
  ELSE S1_runListeners(
         IF s0.tasks[i].pc \in S1_Waiting /\ s0.tasks[i].port = p
            /\ S1_predicate(s0.tasks[i], m)
         THEN S1_resume(s, i, m) ELSE s,
         s0, i + 1, p, m)

\* a "message" event on port p: onMessageFromUltra, then the waitFor
\* listeners
S1_onPortMessage(s, p, m) ==
  S1_runListeners(S1_onMessageFromUltra(s, m), s, 1, p, m)

\* lines 338-378
S1_onHandshake(s, evt) ==
  IF ~Truthy(evt.type) THEN s
  ELSE IF evt.type # "integration:hello" /\ evt.type # "integration:port" THEN s
  ELSE IF Len(evt.ports) = 0 THEN s
  ELSE LET i == Len(s.tasks) + 1 IN
       S1_flowStart([s EXCEPT !.channel = evt.ports[1],
                              !.listeners = @ \cup {evt.ports[1]},
                              !.tasks = Append(@, S1_NewTask("init"))], i)

\* lines 380-385: the hello goes to the stored Learn origin, or to "*"; an
\* unparsable stored host throws at new URL and nothing is posted
S1_boot(s) ==
  LET learnOrigin == S1_getLearnHostOrigin(s) IN
  IF learnOrigin = "<throws>" THEN s
  ELSE [s EXCEPT !.out = Append(@, [OutMsg("integration:hello", "window")
                                      EXCEPT !.target = learnOrigin])]

\* --------------------------------------------------- first script: actions
\* the handshake replies: the window listener checks no origin
S1_HandshakeReplies ==
  {WinEvent("https://lms", "integration:hello", ps) :
     ps \in {<<>>} \cup {<<p>> : p \in Ports}}
  \cup {WinEvent("https://lms.evil", "other", <<"port1">>)}

\* the one reply of a host that answers the hello once
S1_OneHandshakeReply ==
  {WinEvent("https://lms", "integration:hello", <<"port1">>)}

\* the help menu entry exists once a bootstrap has posted help:register and
\* ended authorized
S1_HelpRequests ==
  {[InMsg("event:event") EXCEPT !.eventType = "help:request",
                                 !.correlationId = "h1"] :
     x \in IF \E i \in DOMAIN tasks1 :
               /\ tasks1[i].kind = "init" /\ tasks1[i].pc = "done"
               /\ tasks1[i].ok = "true" /\ tasks1[i].nReg > 0
           THEN {1} ELSE {}}

\* the answers to an unanswered portal:panel request; a portal the host
\* opens gets an id no earlier portal had
S1_PanelReplies ==
  {[InMsg("portal:panel:response")
      EXCEPT !.correlationId = PANEL_CORRELATION_ID,
             !.status = r[1], !.portalId = r[2]] :
     r \in IF host1.pending = 0 THEN {}
           ELSE {<<"error", Undefined>>, <<"success", Undefined>>}
                \cup {<<"success", pid>> : pid \in PortalIds \ host1.opened}}

\* the close notifications: the first for a portal the host opened, and
\* duplicates of it; every panel request of the script names the same
\* callbackId
S1_CloseNotifications ==
  {[closes |-> pid]
     @@ [InMsg("portal:callback")
           EXCEPT !.callbackId = PANEL_CORRELATION_ID \o "-close"] :
     pid \in host1.opened}

\* the host's messages the authorization and the registration wait for
S1_AuthMessages ==
  {InMsg("authorization:authorize"), InMsg("authorization:unauthorize"),
   [InMsg("help:register:response") EXCEPT !.status = "success"]}

\* the host's panels after a step: a portal:panel:response answers one
\* request, a success one with a portal id opens that portal, a close
\* notification closes the portal it is about (closes, a field the script
\* does not read)
S1_hostAfter(t, ev) ==
  LET answered == ev.src = "port" /\ ev.type = "portal:panel:response"
      closed == ev.src = "port" /\ ev.type = "portal:callback"
  IN [pending |-> host1.pending - (IF answered THEN 1 ELSE 0)
                    + Len(SelectSeq(t.out, LAMBDA m : m.type = "portal:panel")),
      opened |-> host1.opened
                 \cup (IF answered /\ ev.status = "success"
                          /\ Truthy(ev.portalId)
                       THEN {ev.portalId} ELSE {}),
      closed |-> host1.closed \cup (IF closed THEN {ev.closes} ELSE {})]

\* the tasks that ended are dropped when they are help requests: nothing
\* reads them again
S1_Commit(t, ev) ==
  /\ page1' = [token |-> t.token, access |-> t.access, refresh |-> t.refresh,
               expiresAt |-> t.expiresAt, learnHost |-> t.learnHost]
  /\ script1' = [channel |-> t.channel, portalId |-> t.portalId,
                 lastAuthorizeAttemptAt |-> t.lastAuthorizeAttemptAt,
                 listeners |-> t.listeners]
  /\ tasks1' = SelectSeq(t.tasks,
                         LAMBDA k : ~(k.kind = "help" /\ k.pc = "done"))
  /\ host1' = S1_hostAfter(t, ev)
  /\ host1'.pending <= MaxPending
  /\ lastIn' = ev
  /\ out' = t.out
  /\ UNCHANGED <<envVars, progVars, threw, nSent, hostSpoke, helpAwaiting,
                 baseNavAwaiting, helpAcked, baseNavAcked, everUnauthorized,
                 panelClosed, visitReset, part7, pendingTimeouts, awaitingPanel, clock, part1Vars>>

S1_Boot ==
  /\ ~booted
  /\ booted' = TRUE
  /\ S1_Commit(S1_boot(S1_Cur), [src |-> "boot"])

\* window.addEventListener("message", onHandshake); a MessagePort is
\* transferred once, so no event carries a port an earlier one carried
S1_DeliverWindow(events) ==
  /\ booted
  /\ \E evt \in events :
       /\ \A k \in DOMAIN evt.ports : evt.ports[k] \notin script1.listeners
       /\ S1_Commit(S1_onHandshake(S1_Cur, evt), evt)
  /\ UNCHANGED booted

S1_Handshake == S1_DeliverWindow(S1_HandshakeReplies)

\* a host that answers the hello once
S1_FirstHandshake == S1_DeliverWindow(S1_OneHandshakeReply)

\* one message on a port the script listens on
S1_DeliverPort(messages) ==
  /\ booted
  /\ \E p \in script1.listeners, m \in messages :
       S1_Commit(S1_onPortMessage(S1_Cur, p, m), [port |-> p] @@ m)
  /\ UNCHANGED booted

S1_AuthMessage == S1_DeliverPort(S1_AuthMessages)

S1_HelpRequest == S1_DeliverPort(S1_HelpRequests)

S1_PanelReply == S1_DeliverPort(S1_PanelReplies)

S1_CloseNotification == S1_DeliverPort(S1_CloseNotifications)

\* the 8000 ms timer of a waitFor fires
S1_WaitTimeout ==
  /\ \E i \in DOMAIN tasks1 :
       /\ tasks1[i].pc \in S1_Waiting
       /\ clock >= tasks1[i].since + 8000
       /\ S1_Commit(S1_resume(S1_Cur, i, S1_NoReply), [src |-> "timeout", task |-> i])
  /\ UNCHANGED booted

\* the 2000 ms timer of sleep fires
S1_SleepDone ==
  /\ \E i \in DOMAIN tasks1 :
       /\ tasks1[i].pc = "sleep"
       /\ clock >= tasks1[i].since + 2000
       /\ S1_Commit(S1_flowAfterSleep(S1_Cur, i), [src |-> "sleep", task |-> i])
  /\ UNCHANGED booted

\* the refresh endpoint answers a task
S1_FetchDone ==
  /\ \E i \in DOMAIN tasks1, result \in S1_FetchResults :
       /\ tasks1[i].pc \in {"refresh0", "refresh1", "refresh2"}
       /\ S1_Commit(S1_flowOnFetch(S1_Cur, i, result),
                    [src |-> "fetch", task |-> i, ok |-> result.ok,
                     failed |-> result.failed,
                     access_token |-> result.access_token])
  /\ UNCHANGED booted

\* time passes between two events
S1_Tick ==
  /\ booted
  /\ \E t \in ClockValues : t > clock /\ clock' = t
  /\ lastIn' = [src |-> "tick"]
  /\ out' = <<>>
  /\ UNCHANGED <<envVars, booted, progVars, threw, nSent, hostSpoke,
                 helpAwaiting, baseNavAwaiting, helpAcked, baseNavAcked,
                 everUnauthorized, panelClosed, visitReset, part7, pendingTimeouts, awaitingPanel,
                 page1, script1, tasks1, host1, part1Vars>>

\* ===================================================== src/unnamed/part_001
\* The variant of the client whose help entry and base-navigation route open
\* a side panel captured from the portal:new event.  A step record holds the
\* page (window.__lmsHost, window.__token, the two localStorage keys), the
\* module-level variables of part_001, Date.now() and Math.random() of the
\* running handler and the messages it sent.

\* CFG.learnHost when window.__lmsHost is not set
P1_DEFAULT_LEARN_HOST == "https://mapua-test.blackboard.com"

\* the module-level variables of part_001 when the script has been loaded
P1_Loaded ==
  [messagePort |-> Null, authed |-> FALSE, helpRegistered |-> FALSE,
   baseNavRegistered |-> FALSE, panelOpen |-> FALSE, panelPortalId |-> Null,
   panelCloseCallbackId |-> Null]

P1_Cur ==
  [lmsHost |-> page001.lmsHost, token |-> page001.token,
   primary |-> page001.primary, legacy |-> page001.legacy,
   messagePort |-> part1.messagePort, authed |-> part1.authed,
   helpRegistered |-> part1.helpRegistered,
   baseNavRegistered |-> part1.baseNavRegistered,
   panelOpen |-> part1.panelOpen, panelPortalId |-> part1.panelPortalId,
   panelCloseCallbackId |-> part1.panelCloseCallbackId,
   dateNow |-> clock, mathRandom |-> Undefined, out |-> <<>>]

\* CFG.learnHost
P1_learnHost(s) ==
  IF Truthy(s.lmsHost) THEN s.lmsHost ELSE P1_DEFAULT_LEARN_HOST

\* getToken with the two storage keys read in the other order
P1_getToken_LegacyFirst(s) ==
  IF IsString(s.token) /\ Truthy(Trim(s.token))
  THEN Trim(s.token)
  ELSE LET v2 == Trim(IF Truthy(s.legacy) THEN s.legacy ELSE "") IN
       IF Truthy(v2) THEN v2
       ELSE Trim(IF Truthy(s.primary) THEN s.primary ELSE "")

P1_getToken(s) ==
  IF IsString(s.token) /\ Truthy(Trim(s.token))
  THEN Trim(s.token)
  ELSE LET v1 == Trim(IF Truthy(s.primary) THEN s.primary ELSE "") IN
       IF Truthy(v1) THEN v1
       ELSE Trim(IF Truthy(s.legacy) THEN s.legacy ELSE "")

P1_makeCorrelationId(s, prefix) ==
  prefix \o "-" \o ToString(s.dateNow) \o "-" \o s.mathRandom

\* send(msg): nothing without a port
P1_send(s, m) ==
  IF s.messagePort = Null THEN s
  ELSE [s EXCEPT !.out = Append(@, [m EXCEPT !.via = s.messagePort])]

P1_startHandshake(s) ==
  [s EXCEPT !.out = Append(@, [OutMsg("integration:hello", "window")
                                 EXCEPT !.target = P1_learnHost(s) \o "/*"])]

P1_authorize(s) ==
  LET token == P1_getToken(s) IN
  IF ~Truthy(token) THEN s
  ELSE P1_send(s, [OutMsg("authorization:authorize", Null)
                     EXCEPT !.token = token])

P1_subscribeEvents(s) == P1_send(s, OutMsg("event:subscribe", Null))

P1_registerHelpProvider(s) ==
  IF s.helpRegistered THEN s
  ELSE P1_send(s, [OutMsg("help:register", Null)
                     EXCEPT !.id = "noodlefactory-help",
                            !.displayName = "Ask Mappy"])

P1_registerBaseNav(s) ==
  IF s.baseNavRegistered THEN s
  ELSE P1_send(s, [OutMsg("basenav:register", Null)
                     EXCEPT !.displayName = "Ask Mappy",
                            !.routeName = "ask-mappy"])

P1_renderWidget(s, portalId) ==
  P1_send(s, [OutMsg("portal:render", Null)
                EXCEPT !.portalId = portalId,
                       !.contents = "https://tool/widget.html"])

\* openPanel asking for a new panel whenever no portal id is held
P1_openPanel_Reopen(s) ==
  IF s.panelOpen /\ Truthy(s.panelPortalId)
  THEN P1_renderWidget(s, s.panelPortalId)
  ELSE LET s1 == [s EXCEPT !.panelOpen = TRUE, !.panelPortalId = Null,
                           !.panelCloseCallbackId =
                             P1_makeCorrelationId(s, "panel-close")]
       IN P1_send(s1, [OutMsg("portal:panel", Null)
                         EXCEPT !.callbackId = s1.panelCloseCallbackId])

P1_openPanel(s) ==
  IF s.panelOpen
  THEN IF Truthy(s.panelPortalId) THEN P1_renderWidget(s, s.panelPortalId)
       ELSE s
  ELSE LET s1 == [s EXCEPT !.panelOpen = TRUE,
                           !.panelPortalId = Null,
                           !.panelCloseCallbackId =
                              P1_makeCorrelationId(s, "panel-close")]
       IN P1_send(s1, [OutMsg("portal:panel", Null)
                         EXCEPT !.callbackId = s1.panelCloseCallbackId])

P1_handleRouteEvent(s, msg) ==
  IF msg.routeName = "ask-mappy" THEN P1_openPanel(s) ELSE s

P1_handlePortalNew(s, msg) ==
  IF ~s.panelOpen THEN s
  ELSE IF Truthy(msg.portalId) /\ ~Truthy(s.panelPortalId)
       THEN P1_renderWidget([s EXCEPT !.panelPortalId = msg.portalId],
                            msg.portalId)
  ELSE s

P1_handlePortalRemove(s, msg) ==
  IF Truthy(s.panelPortalId) /\ msg.portalId = s.panelPortalId
  THEN [s EXCEPT !.panelOpen = FALSE, !.panelPortalId = Null,
                 !.panelCloseCallbackId = Null]
  ELSE s

\* the window "message" listener: every hello from the Learn host that
\* carries a port replaces messagePort and authorizes
P1_onWindowMessage(s, incoming) ==
  IF incoming.origin # P1_learnHost(s) THEN s
  ELSE IF incoming.type = "integration:hello" /\ Len(incoming.ports) > 0
       THEN P1_authorize([s EXCEPT !.messagePort = incoming.ports[1]])
  ELSE s

P1_onPortMessage(s, msg) ==
  IF ~Truthy(msg.type) THEN s
  ELSE IF msg.type = "authorization:authorize"
       THEN P1_registerBaseNav(
              P1_registerHelpProvider(
                P1_subscribeEvents([s EXCEPT !.authed = TRUE])))
  ELSE IF msg.type = "help:request" THEN P1_openPanel(s)
  ELSE IF msg.type = "help:register"
       THEN IF msg.status = "success" THEN [s EXCEPT !.helpRegistered = TRUE]
            ELSE s
  ELSE IF msg.type = "basenav:register"
       THEN IF msg.status = "success"
            THEN [s EXCEPT !.baseNavRegistered = TRUE]
            ELSE s
  ELSE IF msg.type = "event:event"
       THEN IF msg.eventType = "route" THEN P1_handleRouteEvent(s, msg)
            ELSE IF msg.eventType = "portal:new"
                 THEN P1_handlePortalNew(s, msg)
            ELSE IF msg.eventType = "portal:remove"
                 THEN P1_handlePortalRemove(s, msg)
            ELSE s
  ELSE IF msg.type = "portal:callback"
       THEN IF Truthy(msg.callbackId)
               /\ msg.callbackId = s.panelCloseCallbackId
            THEN [s EXCEPT !.panelOpen = FALSE, !.panelPortalId = Null,
                           !.panelCloseCallbackId = Null]
            ELSE s
  ELSE s

\* ---------------------------------------------------- part_001: the host
\* <<window.__token, localStorage["uef_user_token"],
\*   localStorage["UEF_BEARER_TOKEN"]>>
P1_TokenSources ==
  {<<" tokA ", "tokB ", "tokC">>, <<" ", "tokB ", "tokC">>,
   <<Undefined, " ", "tokC">>, <<Undefined, Null, " tokA ">>,
   <<" ", " ", " ">>, <<Undefined, Null, Null>>}

\* window.__lmsHost
P1_HostSources == {Undefined, "https://lms"}

P1_Pages ==
  {[lmsHost |-> h, token |-> ts[1], primary |-> ts[2], legacy |-> ts[3]] :
     h \in P1_HostSources, ts \in P1_TokenSources}

\* the page when part_001 is not the script under study
P1_NoPage ==
  [lmsHost |-> Undefined, token |-> Undefined, primary |-> Null,
   legacy |-> Null]

P1_WindowEvents ==
  {WinEvent(o, ty, ps) :
     o \in {"https://lms", P1_DEFAULT_LEARN_HOST, "https://lms.evil"},
     ty \in {"integration:hello", "other"},
     ps \in {<<>>} \cup {<<p>> : p \in Ports}}

P1_HostMessages ==
  {InMsg(Undefined), InMsg("authorization:authorize")}
  \cup {[InMsg("help:request") EXCEPT !.correlationId = c] :
          c \in HelpCorrelationIds}
  \cup {[InMsg(ty) EXCEPT !.status = st] :
          ty \in {"help:register", "basenav:register"},
          st \in {"success", "error"}}
  \cup {[InMsg("event:event") EXCEPT !.eventType = "route",
                                     !.routeName = r] :
          r \in {"ask-mappy", "course"}}
  \cup {[InMsg("event:event") EXCEPT !.eventType = et, !.portalId = pid] :
          et \in {"portal:new", "portal:remove"},
          pid \in {"P1", Undefined}}
  \cup {[InMsg("portal:callback") EXCEPT !.callbackId = c] :
          c \in {part1.panelCloseCallbackId, "panel-close-0-a"} \ {Null}}

\* ------------------------------------------------- part_001: the actions
P1_Commit(t, ev) ==
  /\ part1' = [f \in DOMAIN part1 |-> t[f]]
  /\ lastIn' = ev
  /\ out' = t.out
  /\ UNCHANGED <<envVars, progVars, threw, nSent, hostSpoke, helpAwaiting,
                 baseNavAwaiting, helpAcked, baseNavAcked, everUnauthorized,
                 panelClosed, visitReset, part7Vars, script1Vars, page001>>

\* script load: the window listener is added, then startHandshake()
P1_Boot ==
  /\ ~booted
  /\ booted' = TRUE
  /\ P1_Commit(P1_startHandshake(P1_Cur), [src |-> "boot"])

P1_WindowMessage ==
  /\ booted
  /\ \E incoming \in P1_WindowEvents :
       P1_Commit(P1_onWindowMessage(P1_Cur, incoming), incoming)
  /\ UNCHANGED booted

\* messagePort.onmessage = onPortMessage: one message on the adopted port
P1_PortMessage ==
  /\ booted
  /\ part1.messagePort # Null
  /\ \E msg \in P1_HostMessages, r \in RandomValues :
       P1_Commit(P1_onPortMessage([P1_Cur EXCEPT !.mathRandom = r], msg), msg)
  /\ UNCHANGED booted

\* the state when the script has been loaded and none of it has run
InitWith(hostSources, tokenSources, pages, pages001) ==
  /\ \E hs \in hostSources : windowLmsHost = hs[1] /\ referrer = hs[2]
  /\ \E ts \in tokenSources : windowToken = ts[1] /\ storedToken = ts[2]
  /\ booted = FALSE
  /\ messageChannel = Null
  /\ isAuthorized = FALSE
  /\ helpRegistered = FALSE
  /\ baseNavRegistered = FALSE
  /\ currentPortalId = Null
  /\ currentPanelCorrelationId = Null
  /\ currentCloseCallbackId = Null
  /\ openedFromBaseNavThisVisit = FALSE
  /\ lastIn = NoEvent
  /\ out = <<>>
  /\ threw = FALSE
  /\ nSent = [ty \in CountedTypes |-> 0]
  /\ hostSpoke = FALSE
  /\ helpAwaiting = FALSE
  /\ baseNavAwaiting = FALSE
  /\ helpAcked = FALSE
  /\ baseNavAcked = FALSE
  /\ everUnauthorized = FALSE
  /\ panelClosed = FALSE
  /\ visitReset = FALSE
  /\ part7 = P7_Loaded
  /\ clock \in StartTimes
  /\ pendingTimeouts = 0
  /\ awaitingPanel = <<>>
  /\ page1 \in pages
  /\ script1 = S1_Loaded
  /\ tasks1 = <<>>
  /\ host1 = [pending |-> 0, opened |-> {}, closed |-> {}]
  /\ page001 \in pages001
  /\ part1 = P1_Loaded

InitAll(hostSources, tokenSources, pages) ==
  InitWith(hostSources, tokenSources, pages, {P1_NoPage})

InitFrom(hostSources, tokenSources) ==
  InitAll(hostSources, tokenSources,
          {[token |-> Undefined, access |-> Null, refresh |-> Null,
            expiresAt |-> Null, learnHost |-> Null]})

Init == InitFrom(SessionHostSources, SessionTokenSources)

InitHandshake == InitFrom(HostSources, TokenSources)

Next == Boot \/ WindowMessage \/ PortMessage

Spec == Init /\ [][Next]_vars

NextHandshake == Boot \/ AnyWindowMessage \/ OpeningPortMessage

SpecHandshake == InitHandshake /\ [][NextHandshake]_vars

\* the first script: handshake, authorization with refresh and retry,
\* registration
S1_Pages ==
  {[token |-> ts[1], access |-> ts[2], refresh |-> ts[3], expiresAt |-> ts[4],
    learnHost |-> "https://lms"] : ts \in S1_TokenSources}

InitAuth == InitAll(SessionHostSources, {<<Undefined, Null>>}, S1_Pages)

NextAuth ==
  \/ S1_Boot \/ S1_Handshake \/ S1_AuthMessage \/ S1_WaitTimeout
  \/ S1_SleepDone \/ S1_FetchDone \/ S1_Tick

SpecAuth == InitAuth /\ [][NextAuth]_vars

\* part_007 with a host that answers portal:panel requests
NextPart7 ==
  \/ P7_Boot \/ P7_WindowMessage \/ P7_HostMessage \/ P7_PanelReply
  \/ P7_CloseNotification \/ P7_ClickTimeout \/ P7_Tick

InitPart7 == InitFrom(SessionHostSources, {<<" tokA ", "tokB ">>})

SpecPart7 == InitPart7 /\ [][NextPart7]_vars

\* part_007 with a host that never answers a portal:panel request but keeps
\* sending its other messages, invocations among them; a scheduled
\* setTimeout callback always runs in the end, and time passes as far as the
\* clock of the model goes
NextSilentHost ==
  P7_Boot \/ P7_WindowMessage \/ P7_HostMessage \/ P7_ClickTimeout \/ P7_Tick

SpecSilentHost ==
  /\ InitPart7 /\ [][NextSilentHost]_vars
  /\ WF_vars(P7_ClickTimeout) /\ WF_vars(P7_Tick) /\ WF_vars(P7_HostMessage)

\* the first script with one handshake reply: authorization, registration,
\* help requests and the panel, with and without a stored Learn host
S1_HelpPages ==
  {[token |-> "tokA", access |-> Null, refresh |-> Null, expiresAt |-> Null,
    learnHost |-> h] : h \in {Null, "https://lms"}}

InitHelp == InitAll(SessionHostSources, {<<Undefined, Null>>}, S1_HelpPages)

NextHelp ==
  \/ S1_Boot \/ S1_FirstHandshake \/ S1_AuthMessage \/ S1_HelpRequest
  \/ S1_PanelReply \/ S1_CloseNotification \/ S1_WaitTimeout \/ S1_Tick

SpecHelp == InitHelp /\ [][NextHelp]_vars

\* part_001: handshake, authorization, registration and the panel
InitPart1 ==
  InitWith(SessionHostSources, {<<Undefined, Null>>},
           {[token |-> Undefined, access |-> Null, refresh |-> Null,
             expiresAt |-> Null, learnHost |-> Null]}, P1_Pages)

NextPart1 == P1_Boot \/ P1_WindowMessage \/ P1_PortMessage

SpecPart1 == InitPart1 /\ [][NextPart1]_vars

\* ---------------------------------------------------- reading a step's trace
HasType(msgs, ty) == \E i \in DOMAIN msgs : msgs[i].type = ty

FromPort(ev, ty) == ev.src = "port" /\ ev.type = ty

\* a window event that passes every check of onPostMessageReceived up to the
\* "already set" one: host origin, handshake type, a port
HandshakeReply(ev) ==
  /\ ev.src = "window"
  /\ Truthy(getLmsHost(Cur))
  /\ ev.origin = getLmsHost(Cur)
  /\ ev.type \in {"integration:hello", "integration:port"}
  /\ Len(ev.ports) > 0

\* ------------------------------------------------------------------ claims

\* C1: of the handshake replies from the host origin that carry a port, the
\* first is adopted as messageChannel; a reply handled while a channel is set
\* changes no variable of the script and posts nothing.
C1_OnlyFirstReplyAdopted ==
  [][HandshakeReply(lastIn') =>
       IF messageChannel = Null
       THEN messageChannel' = lastIn'.ports[1]
       ELSE UNCHANGED progVars /\ out' = <<>> /\ UNCHANGED nSent]_vars

C1_Witness ==
  /\ HandshakeReply(lastIn)
  /\ messageChannel # Null
  /\ lastIn.ports[1] # messageChannel
  /\ Truthy(getToken(Cur))
  /\ isAuthorized

\* C2: a window message whose origin differs from the configured LMS host
\* never sets messageChannel and never posts a message, whatever its type and
\* ports.
C2_ForeignOriginIgnored ==
  [][(lastIn'.src = "window" /\ lastIn'.origin # getLmsHost(Cur)) =>
       (messageChannel' = messageChannel /\ out' = <<>>)]_vars

C2_Witness ==
  /\ lastIn.src = "window"
  /\ Truthy(getLmsHost(Cur))
  /\ lastIn.origin = getLmsHost(Cur) \o ".evil"
  /\ lastIn.type = "integration:hello"
  /\ Len(lastIn.ports) > 0
  /\ messageChannel = Null

\* C3: with no LMS host (getLmsHost() is empty) the client posts nothing, not
\* even integration:hello, and adopts no channel, at boot and on every later
\* window message.
C3_NoHostNoTraffic ==
  ~Truthy(getLmsHost(Cur)) => (messageChannel = Null /\ out = <<>> /\ ~threw)

C3_Witness ==
  /\ ~Truthy(getLmsHost(Cur))
  /\ booted
  /\ lastIn.src = "window"
  /\ lastIn.type = "integration:hello"
  /\ Len(lastIn.ports) > 0

\* C4: every message other than integration:hello is posted on the adopted
\* channel, which is non-null when it is posted: no handler posts, or tries to
\* post, on a null messageChannel.
C4_PostsNeedChannel ==
  /\ ~threw
  /\ \A i \in DOMAIN out :
       out[i].type # "integration:hello" =>
         (messageChannel # Null /\ out[i].via = messageChannel)

C4_Witness ==
  /\ HasType(out, "help:request:response")
  /\ HasType(out, "portal:render")
  /\ messageChannel # Null

\* C5: when getToken() finds no credential, no authorization:authorize request
\* is posted, neither when the channel is adopted nor later in the session.
C5_NoCredentialNoAuthorize ==
  ~Truthy(getToken(Cur)) =>
    (nSent["authorization:authorize"] = 0 /\ ~HasType(out, "authorization:authorize"))

C5_Witness ==
  /\ ~Truthy(getToken(Cur))
  /\ messageChannel # Null
  /\ hostSpoke
  /\ isAuthorized

\* C6: with a credential present, once a handshake reply is adopted exactly
\* one authorization:authorize request has been posted; the host's reply to it,
\* as the first message on the channel, makes the client post exactly one
\* help:register with id 'noodlefactory-help' and exactly one basenav:register
\* with routeName 'ask-mappy', none having been posted before.
C6_OneAuthorizeOneRegistrationEach ==
  [][/\ (messageChannel' # Null /\ Truthy(getToken(Cur))) =>
          nSent'["authorization:authorize"] = 1
     /\ (Truthy(getToken(Cur)) /\ ~hostSpoke
         /\ FromPort(lastIn', "authorization:authorize")) =>
          /\ ~helpAwaiting /\ ~baseNavAwaiting
          /\ CountOf(out', "help:register") = 1
          /\ CountOf(out', "basenav:register") = 1
          /\ \A i \in DOMAIN out' :
               /\ out'[i].type = "help:register" => out'[i].id = "noodlefactory-help"
               /\ out'[i].type = "basenav:register" => out'[i].routeName = "ask-mappy"]_vars

C6_Witness ==
  /\ nSent["authorization:authorize"] = 1
  /\ FromPort(lastIn, "authorization:authorize")
  /\ CountOf(out, "help:register") = 1
  /\ CountOf(out, "basenav:register") = 1
  /\ ~helpAcked /\ ~baseNavAcked /\ ~everUnauthorized

\* C7 (as claimed): a registration request is posted only in answer to an
\* authorization reply that indicates success; a reply that reports rejection
\* or carries a non-success status never leads to one.
C7_Original ==
  [][(HasType(out', "help:register") \/ HasType(out', "basenav:register")) =>
       (FromPort(lastIn', "authorization:authorize")
        /\ lastIn'.status \in {Undefined, "success"})]_vars

\* C7 (amended): a registration request is posted only by the step that handles
\* a channel message of type authorization:authorize, which sets isAuthorized
\* whatever status the message carries; no other message, authorization:
\* unauthorize included, leads to one.
C7_RegistrationOnlyOnAuthorizeMessage ==
  [][(HasType(out', "help:register") \/ HasType(out', "basenav:register")) =>
       (FromPort(lastIn', "authorization:authorize") /\ isAuthorized')]_vars

C7_Witness ==
  /\ FromPort(lastIn, "authorization:authorize")
  /\ lastIn.status = "error"
  /\ HasType(out, "help:register")
  /\ HasType(out, "basenav:register")

C9_OneRegistrationInFlight ==
  [][/\ helpAwaiting => ~HasType(out', "help:register")
     /\ baseNavAwaiting => ~HasType(out', "basenav:register")]_vars

\* C10: an authorization:unauthorize message clears isAuthorized and is
\* answered by no message; from then on no authorization:authorize request is
\* posted.
C10_UnauthorizeEndsAuthorization ==
  [][/\ FromPort(lastIn', "authorization:unauthorize") =>
          (~isAuthorized' /\ out' = <<>>)
     /\ everUnauthorized' => ~HasType(out', "authorization:authorize")]_vars

C10_Witness ==
  /\ FromPort(lastIn, "authorization:unauthorize")
  /\ Truthy(getToken(Cur))
  /\ nSent["authorization:authorize"] = 1
  /\ ~isAuthorized
  /\ out = <<>>

\* ---------------------------------------------------------- panel lifecycle
HelpRequest(ev) == FromPort(ev, "event:event") /\ ev.eventType = "help:request"

RouteEvent(ev) == FromPort(ev, "event:event") /\ ev.eventType = "route"

panelVars ==
  <<currentPortalId, currentPanelCorrelationId, currentCloseCallbackId>>

\* C13: every help:request event delivered on the channel is answered by
\* exactly one help:request:response carrying the event's correlationId,
\* whether or not the client is authorized and whatever the panel state.
C13_HelpRequestAcknowledgedOnce ==
  [][HelpRequest(lastIn') =>
       /\ CountOf(out', "help:request:response") = 1
       /\ \A i \in DOMAIN out' :
            out'[i].type = "help:request:response" =>
              out'[i].correlationId = lastIn'.correlationId]_vars

C13_Witness ==
  /\ HelpRequest(lastIn)
  /\ ~isAuthorized
  /\ everUnauthorized
  /\ Truthy(currentPortalId)
  /\ out = <<[OutMsg("help:request:response", messageChannel)
               EXCEPT !.correlationId = lastIn.correlationId]>>

\* C15 (as claimed): a help invocation handled while a portal id is tracked
\* posts no portal:panel and exactly one portal:render, for the tracked portal
\* id, and leaves the panel state unchanged.
C15_Original ==
  [][(HelpRequest(lastIn') /\ Truthy(currentPortalId)) =>
       /\ ~HasType(out', "portal:panel")
       /\ CountOf(out', "portal:render") = 1
       /\ \A i \in DOMAIN out' :
            out'[i].type = "portal:render" => out'[i].portalId = currentPortalId
       /\ UNCHANGED panelVars]_vars

\* C15 (amended): a help invocation handled while the client is authorized
\* and a portal id is tracked posts no portal:panel and exactly one
\* portal:render, for the tracked portal id, and leaves the panel state
\* unchanged; handled while not authorized it posts neither.
C15_RerenderWhenOpenAndAuthorized ==
  [][(HelpRequest(lastIn') /\ Truthy(currentPortalId)) =>
       /\ ~HasType(out', "portal:panel")
       /\ CountOf(out', "portal:render") = (IF isAuthorized THEN 1 ELSE 0)
       /\ \A i \in DOMAIN out' :
            out'[i].type = "portal:render" => out'[i].portalId = currentPortalId
       /\ UNCHANGED panelVars]_vars

C15_Witness ==
  /\ HelpRequest(lastIn)
  /\ isAuthorized
  /\ Truthy(currentPortalId)
  /\ CountOf(out, "portal:render") = 1
  /\ \E i \in DOMAIN out :
       out[i].type = "portal:render" /\ out[i].portalId = currentPortalId

\* C16: a portal:callback whose callbackId differs from
\* currentCloseCallbackId leaves currentPortalId, currentPanelCorrelationId
\* and currentCloseCallbackId unchanged and posts nothing; so a repeated close
\* notification of an earlier panel does not touch a panel opened since.
C16_ForeignCallbackIgnored ==
  [][(FromPort(lastIn', "portal:callback")
      /\ lastIn'.callbackId # currentCloseCallbackId) =>
       (UNCHANGED panelVars /\ out' = <<>>)]_vars

C16_Witness ==
  /\ FromPort(lastIn, "portal:callback")
  /\ Truthy(lastIn.callbackId)
  /\ Truthy(currentCloseCallbackId)
  /\ lastIn.callbackId # currentCloseCallbackId
  /\ Truthy(currentPortalId)

\* an invocation of the entry: a help request, or a route event for the
\* registered route that is the first of its visit
Invocation(ev) ==
  \/ HelpRequest(ev)
  \/ /\ RouteEvent(ev)
     /\ ev.routeName = BASE_NAV_ROUTE_NAME
     /\ ~openedFromBaseNavThisVisit

\* C14: an invocation handled while authorized and while no portal id is
\* tracked posts exactly one portal:panel whose callbackId is its
\* correlationId followed by "-close" and whose correlationId differs from
\* that of every earlier portal:panel of the session, so in particular from
\* the one of the latest earlier request, still held in
\* currentPanelCorrelationId.
C14_FreshPanelCorrelationId ==
  [][(Invocation(lastIn') /\ isAuthorized /\ ~Truthy(currentPortalId)) =>
       /\ CountOf(out', "portal:panel") = 1
       /\ \A i \in DOMAIN out' :
            out'[i].type = "portal:panel" =>
              /\ out'[i].callbackId = out'[i].correlationId \o "-close"
              /\ out'[i].correlationId # currentPanelCorrelationId]_vars

\* C18: while authorized and with no panel tracked, the first route event of
\* a visit to 'ask-mappy' posts exactly one portal:panel, every further
\* 'ask-mappy' route event of the visit posts nothing, and the visit lasts
\* until a route event for another route: so three consecutive 'ask-mappy'
\* route events post exactly one portal:panel.
C18_OnePanelPerVisit ==
  [][/\ (RouteEvent(lastIn') /\ lastIn'.routeName = BASE_NAV_ROUTE_NAME) =>
          /\ openedFromBaseNavThisVisit'
          /\ openedFromBaseNavThisVisit => (out' = <<>> /\ UNCHANGED panelVars)
          /\ (~openedFromBaseNavThisVisit /\ isAuthorized
              /\ ~Truthy(currentPortalId)) =>
               (CountOf(out', "portal:panel") = 1 /\ Len(out') = 1)
     /\ (openedFromBaseNavThisVisit
         /\ ~(RouteEvent(lastIn') /\ lastIn'.routeName # BASE_NAV_ROUTE_NAME)) =>
          openedFromBaseNavThisVisit']_vars

C18_Witness ==
  /\ RouteEvent(lastIn)
  /\ lastIn.routeName = BASE_NAV_ROUTE_NAME
  /\ openedFromBaseNavThisVisit
  /\ isAuthorized
  /\ ~everUnauthorized
  /\ Truthy(currentPanelCorrelationId)
  /\ ~Truthy(currentPortalId)
  /\ out = <<>>

\* C19: every portal:render carries a portal id, the one the host supplied in
\* the success portal:panel:response for the requested panel and that is
\* still tracked in currentPortalId; none is posted with a null or absent
\* portal id.
C19_RenderCarriesHostPortalId ==
  \A i \in DOMAIN out :
    out[i].type = "portal:render" =>
      (out[i].portalId \in PortalIds /\ out[i].portalId = currentPortalId)

\* ------------------------------------------------------- part_007: the gate
\* an invocation of part_007's entry: a help:request event, or the
\* setTimeout callback of a base-nav click
P7_Invocation(ev) == HelpRequest(ev) \/ ev.src = "timeout"

C20_OpenAttemptAbandoned == part7.panelOpening ~> ~part7.panelOpening

\* ------------------------------------------- first script: authorization
\* C11: in the first script, the bootstrap started by the adoption of a
\* channel posts at most two authorization:authorize requests, the second
\* only after an unauthorize reply to the first and a token refresh that
\* succeeded; once the second request is rejected or left unanswered the
\* bootstrap has ended for good, having posted no event:subscribe and no
\* help:register.
C11_AtMostOneRetry ==
  [][\A i \in DOMAIN tasks1' :
       tasks1'[i].kind = "init" =>
         /\ tasks1'[i].nAuth <= 2
         /\ tasks1'[i].nAuth = 2 =>
              (tasks1'[i].res1 = "authorization:unauthorize"
               /\ tasks1'[i].refreshed)
         /\ (tasks1'[i].nAuth = 2 /\ tasks1'[i].pc = "done"
             /\ tasks1'[i].res2 # "authorization:authorize") =>
              (tasks1'[i].ok # "true" /\ tasks1'[i].nSub = 0
               /\ tasks1'[i].nReg = 0)
         /\ (i \in DOMAIN tasks1 /\ tasks1[i].pc = "done") =>
              tasks1'[i] = tasks1[i]]_vars

C11_Witness ==
  \E i \in DOMAIN tasks1 :
    /\ tasks1[i].kind = "init"
    /\ tasks1[i].nAuth = 2
    /\ tasks1[i].res2 = "authorization:unauthorize"
    /\ tasks1[i].pc = "done"
    /\ tasks1[i].ok = "false"
    /\ FromPort(lastIn, "authorization:unauthorize")

\* C12: in the first script, when the reply to the authorize request is
\* authorization:unauthorize and no refresh token is stored, the bootstrap
\* ends at once with result false, having posted exactly one authorize
\* request; it posts nothing then and, being ended, nothing later: no
\* event:subscribe and no help:register.
C12_RejectedWithoutRefreshToken ==
  [][\A i \in DOMAIN tasks1 :
       /\ (/\ tasks1[i].kind = "init"
           /\ tasks1[i].pc = "wait1"
           /\ FromPort(lastIn', "authorization:unauthorize")
           /\ lastIn'.port = tasks1[i].port
           /\ ~Truthy(page1.refresh)) =>
            /\ tasks1'[i].pc = "done"
            /\ tasks1'[i].ok = "false"
            /\ tasks1'[i].nAuth = 1
            /\ tasks1'[i].nSub = 0
            /\ tasks1'[i].nReg = 0
            /\ out' = <<>>
       /\ (tasks1[i].pc = "done" /\ tasks1[i].ok = "false") =>
            (i \in DOMAIN tasks1' /\ tasks1'[i] = tasks1[i])]_vars

C12_Witness ==
  \E i \in DOMAIN tasks1 :
    /\ tasks1[i].kind = "init"
    /\ tasks1[i].pc = "done"
    /\ tasks1[i].ok = "false"
    /\ tasks1[i].res1 = "authorization:unauthorize"
    /\ tasks1[i].nAuth = 1
    /\ ~Truthy(page1.refresh)
    /\ FromPort(lastIn, "authorization:unauthorize")
    /\ out = <<>>

\* ------------------------------------------------------------ part_001
\* a window event that passes every check of part_001's onWindowMessage
P1_Hello(ev) ==
  /\ ev.src = "window"
  /\ ev.origin = P1_learnHost(page001)
  /\ ev.type = "integration:hello"
  /\ Len(ev.ports) > 0

\* a source's value with surrounding whitespace removed, "" when absent
Trimmed(v) == IF IsString(v) THEN Trim(v) ELSE ""

\* C21 as stated: getToken returns the in-memory value when it is non-empty,
\* otherwise the value under the primary key when non-empty, otherwise the
\* value under the legacy key; authorize() sends exactly that value, and
\* sends nothing only when all three are empty
C21_Original ==
  [][P1_Hello(lastIn') =>
       LET value == IF Truthy(page001.token) THEN page001.token
                    ELSE IF Truthy(page001.primary) THEN page001.primary
                    ELSE IF Truthy(page001.legacy) THEN page001.legacy
                    ELSE ""
       IN IF value = "" THEN out' = <<>>
          ELSE /\ Len(out') = 1
               /\ out'[1].type = "authorization:authorize"
               /\ out'[1].token = value]_vars

\* C21, amended: getToken returns the in-memory value with surrounding
\* whitespace removed when that is non-empty, otherwise the so trimmed value
\* under the primary key when non-empty, otherwise the trimmed value under
\* the legacy key; it returns the empty value only when all three are empty
\* or whitespace
C21_TrimmedTokenByPriority ==
  [][P1_Hello(lastIn') =>
       LET value == IF Trimmed(page001.token) # "" THEN Trimmed(page001.token)
                    ELSE IF Trimmed(page001.primary) # ""
                         THEN Trimmed(page001.primary)
                    ELSE Trimmed(page001.legacy)
       IN /\ (value = "") =
               (\A v \in {page001.token, page001.primary, page001.legacy} :
                  Trimmed(v) = "")
          /\ IF value = "" THEN out' = <<>>
             ELSE /\ Len(out') = 1
                  /\ out'[1].type = "authorization:authorize"
                  /\ out'[1].token = value]_vars

\* the channel has been adopted with a whitespace primary value and the
\* legacy value was sent
C21_Witness ==
  /\ P1_Hello(lastIn)
  /\ page001.primary = " "
  /\ page001.legacy = "tokC"
  /\ Len(out) = 1
  /\ out[1].type = "authorization:authorize"
  /\ out[1].token = "tokC"

\* C24: every help:request delivered on the port of part_001 yields exactly
\* one help:request:response carrying the correlationId of the request
C24_HelpRequestAcknowledged ==
  [][FromPort(lastIn', "help:request") =>
       /\ CountOf(out', "help:request:response") = 1
       /\ \A i \in DOMAIN out' :
            out'[i].type = "help:request:response"
              => out'[i].correlationId = lastIn'.correlationId]_vars

\* ------------------------------------------------- first script: channel
\* C22: once the first script has adopted a channel, a further handshake
\* reply that carries a port does not replace the channel and starts no
\* second authorization/registration flow
C22_SecondReplyIgnored ==
  [][(script1.channel # Null /\ lastIn'.src = "window")
       => /\ script1'.channel = script1.channel
          /\ Len(tasks1') = Len(tasks1)
          /\ out' = <<>>]_vars

\* C23: with no Learn host stored under UEF_LEARN_HOST the first script sends
\* no integration:hello and adopts no channel
C23_NoHostNoHello ==
  ~Truthy(page1.learnHost)
    => /\ script1.channel = Null
       /\ ~(lastIn.src = "boot" /\ HasType(out, "integration:hello"))

\* C25: a close notification for a panel the host has closed before does not
\* clear the portalId of the panel opened afterwards and tracked now
C25_StaleCloseIgnored ==
  [][(/\ FromPort(lastIn', "portal:callback")
      /\ lastIn'.closes \in host1.closed
      /\ Truthy(script1.portalId)
      /\ lastIn'.closes # script1.portalId)
       => script1'.portalId = script1.portalId]_vars

\* C27: a help:request delivered while an earlier one waits in openHelpPanel
\* for the panel response sends no second portal:panel request
C27_OnePanelRequestForTwoHelpRequests ==
  [][(/\ FromPort(lastIn', "event:event")
      /\ lastIn'.eventType = "help:request"
      /\ \E i \in DOMAIN tasks1 :
           tasks1[i].kind = "help" /\ tasks1[i].pc = "waitPanel")
       => ~HasType(out', "portal:panel")]_vars

\* ------------------------------------------- second script: panel requests
\* a portal:panel:response for the correlation id the script tracks
MatchingPanelResponse(ev) ==
  /\ FromPort(ev, "portal:panel:response")
  /\ Truthy(currentPanelCorrelationId)
  /\ ev.correlationId = currentPanelCorrelationId

\* C26: an invocation that arrives right after one that sent a portal:panel
\* request, so before the response to it, sends no second portal:panel
\* request
C26_OnePanelRequestAwaiting ==
  [][(Invocation(lastIn') /\ HasType(out, "portal:panel"))
       => ~HasType(out', "portal:panel")]_vars

\* C28: on a portal:panel:response for the tracked correlation id with status
\* success, currentPortalId becomes the portalId of the response and the step
\* sends exactly one message, a portal:render for that portalId
C28_SuccessRendersAtOnce ==
  [][(MatchingPanelResponse(lastIn') /\ lastIn'.status = "success")
       => /\ currentPortalId' = lastIn'.portalId
          /\ Len(out') = 1
          /\ out'[1].type = "portal:render"
          /\ out'[1].portalId = lastIn'.portalId]_vars

C28_Witness ==
  /\ FromPort(lastIn, "portal:panel:response")
  /\ lastIn.status = "success"
  /\ lastIn.correlationId = currentPanelCorrelationId
  /\ lastIn.portalId \in PortalIds
  /\ currentPortalId = lastIn.portalId
  /\ out = <<[OutMsg("portal:render", messageChannel)
               EXCEPT !.portalId = currentPortalId,
                      !.contents = getIntegrationHost \o WIDGET_PATH]>>

\* C29: on a portal:panel:response for the tracked correlation id with a
\* status other than success, currentPortalId, currentPanelCorrelationId and
\* currentCloseCallbackId are all null afterwards and nothing is sent
C29_FailureClearsTracking ==
  [][(MatchingPanelResponse(lastIn') /\ lastIn'.status # "success")
       => /\ currentPortalId' = Null
          /\ currentPanelCorrelationId' = Null
          /\ currentCloseCallbackId' = Null
          /\ out' = <<>>]_vars

\* no panel, no panel request and no close callback is tracked
PanelCleared ==
  /\ currentPortalId = Null
  /\ currentPanelCorrelationId = Null
  /\ currentCloseCallbackId = Null

\* C30: a portal:callback whose callbackId is currentCloseCallbackId clears
\* the three panel variables and sends nothing; they stay cleared until an
\* invocation, and an invocation handled while they are cleared and the
\* client is authorized sends one portal:panel request and no portal:render
C30_CloseClearsThenReopens ==
  [][/\ (FromPort(lastIn', "portal:callback")
         /\ lastIn'.callbackId = currentCloseCallbackId)
          => (PanelCleared' /\ out' = <<>>)
     /\ (PanelCleared /\ ~Invocation(lastIn')) => PanelCleared'
     /\ (PanelCleared /\ Invocation(lastIn') /\ isAuthorized)
          => /\ CountOf(out', "portal:panel") = 1
             /\ ~HasType(out', "portal:render")]_vars

\* the close notification of the tracked, open panel has been handled while
\* authorized
C30_Witness ==
  /\ FromPort(lastIn, "portal:callback")
  /\ Truthy(lastIn.callbackId)
  /\ panelClosed
  /\ isAuthorized
  /\ PanelCleared
  /\ out = <<>>

\* ------------------------------------- second script: frame and invariants
\* C31: a portal:panel:response whose correlationId is not the tracked one,
\* or that arrives while none is tracked, changes no variable of the script
\* and sends nothing, whatever its status and portalId
C31_ForeignPanelResponseIgnored ==
  [][(FromPort(lastIn', "portal:panel:response")
      /\ ~MatchingPanelResponse(lastIn'))
       => (UNCHANGED progVars /\ out' = <<>>)]_vars

\* a success response with a portal id for another correlation id has been
\* dropped while a request was unanswered
C31_Witness ==
  /\ FromPort(lastIn, "portal:panel:response")
  /\ lastIn.status = "success"
  /\ lastIn.portalId \in PortalIds
  /\ Truthy(currentPanelCorrelationId)
  /\ lastIn.correlationId # currentPanelCorrelationId
  /\ currentPortalId = Null
  /\ isAuthorized
  /\ out = <<>>

\* a route event for the registered route
OwnRouteEvent(ev) == RouteEvent(ev) /\ ev.routeName = BASE_NAV_ROUTE_NAME

\* C32: a route event for another route sends nothing, leaves the panel
\* variables alone and resets openedFromBaseNavThisVisit; the flag stays
\* reset until the next route event for 'ask-mappy', which, handled while
\* authorized, sends one portal:render and no portal:panel when a portal id
\* is tracked, one portal:panel and no portal:render when none is
C32_LeavingTheRouteResetsTheVisit ==
  [][/\ (RouteEvent(lastIn') /\ ~OwnRouteEvent(lastIn'))
          => /\ ~openedFromBaseNavThisVisit'
             /\ out' = <<>>
             /\ UNCHANGED panelVars
     /\ (~openedFromBaseNavThisVisit /\ ~OwnRouteEvent(lastIn'))
          => ~openedFromBaseNavThisVisit'
     /\ (~openedFromBaseNavThisVisit /\ OwnRouteEvent(lastIn') /\ isAuthorized)
          => IF Truthy(currentPortalId)
             THEN /\ CountOf(out', "portal:render") = 1
                  /\ ~HasType(out', "portal:panel")
             ELSE /\ CountOf(out', "portal:panel") = 1
                  /\ ~HasType(out', "portal:render")]_vars

\* a route event for another route has ended a visit that had opened the
\* panel
C32_Witness ==
  /\ RouteEvent(lastIn)
  /\ lastIn.routeName # BASE_NAV_ROUTE_NAME
  /\ visitReset
  /\ ~openedFromBaseNavThisVisit
  /\ isAuthorized
  /\ Truthy(currentPortalId)
  /\ out = <<>>

\* C35: whenever currentPortalId is not null, currentPanelCorrelationId and
\* currentCloseCallbackId are not null and currentCloseCallbackId is
\* currentPanelCorrelationId followed by "-close"
C35_TrackedPortalHasPanelRecord ==
  currentPortalId # Null
    => /\ Truthy(currentPanelCorrelationId)
       /\ Truthy(currentCloseCallbackId)
       /\ currentCloseCallbackId = currentPanelCorrelationId \o "-close"

C35_Witness ==
  /\ currentPortalId \in PortalIds
  /\ currentPanelCorrelationId \in PanelCorrelationIds
  /\ currentCloseCallbackId = currentPanelCorrelationId \o "-close"

\* C37: no portal:panel and no portal:render is sent by a step that starts
\* and ends with isAuthorized false, whichever message the step handles
\* (an invocation, or a portal:panel:response still pending when
\* authorization:unauthorize arrived)
C37_NoPanelOperationWhileUnauthorized ==
  [][(~isAuthorized /\ ~isAuthorized')
       => (~HasType(out', "portal:panel") /\ ~HasType(out', "portal:render"))]_vars

\* ------------------------------------------- first script: retry and wait
\* C33: when the refresh that follows the rejection of the first authorize
\* request returns an access token other than the rejected one, the retried
\* authorization:authorize carries that token and not the token the host
\* rejected, wherever the rejected token had been read from
C33_RetryCarriesRefreshedToken ==
  [][\A i \in DOMAIN tasks1 :
       (/\ lastIn'.src = "fetch"
        /\ lastIn'.task = i
        /\ tasks1[i].pc = "refresh2"
        /\ lastIn'.ok
        /\ Truthy(lastIn'.access_token)
        /\ lastIn'.access_token # tasks1[i].token)
         => /\ \E k \in DOMAIN out' :
                  /\ out'[k].type = "authorization:authorize"
                  /\ out'[k].token = lastIn'.access_token
            /\ \A k \in DOMAIN out' :
                  out'[k].type = "authorization:authorize"
                    => out'[k].token # tasks1[i].token]_vars

\* the wait of a help task (openHelpPanel's waitFor) has run out
HelpWaitTimedOut(ev) ==
  ev.src = "timeout" /\ tasks1[ev.task].kind = "help"

\* C34: when the wait of openHelpPanel runs out unanswered, the task ends,
\* nothing is sent, portalId is still null and the channel is kept; and a
\* help:request handled with no portal id tracked and the channel present is
\* acknowledged with its correlationId and sends one portal:panel
C34_UnansweredPanelRequestCanBeRepeated ==
  [][/\ HelpWaitTimedOut(lastIn')
          => /\ script1.portalId = Null
             /\ script1'.portalId = Null
             /\ script1.channel # Null
             /\ script1'.channel = script1.channel
             /\ out' = <<>>
             /\ Len(tasks1') < Len(tasks1)
     /\ (HelpRequest(lastIn') /\ ~Truthy(script1.portalId)
         /\ script1.channel # Null)
          => /\ CountOf(out', "help:request:response") = 1
             /\ CountOf(out', "portal:panel") = 1
             /\ \A k \in DOMAIN out' :
                   out'[k].type = "help:request:response"
                     => out'[k].correlationId = lastIn'.correlationId]_vars

\* the only wait for a panel response has run out with the request still
\* unanswered by the host
C34_Witness ==
  /\ lastIn.src = "timeout"
  /\ host1.pending > 0
  /\ host1.opened = {}
  /\ script1.portalId = Null
  /\ script1.channel # Null
  /\ \A i \in DOMAIN tasks1 : tasks1[i].kind # "help"
  /\ out = <<>>

\* ------------------------------------------------ part_007: the open gate
\* C36: while panelOpening is true panelPortalId is null and
\* panelCorrelationId and closeCallbackId are not null
C36_OpeningImpliesNoPanelTracked ==
  part7.panelOpening
    => /\ part7.panelPortalId = Null
       /\ part7.panelCorrelationId # Null
       /\ part7.closeCallbackId # Null

\* what holds in every reachable state: while panelOpening is true
\* panelPortalId holds no portal id (it is null, or undefined after a success
\* response that carried none) and both ids of the request are set
OpeningHoldsNoPortalId ==
  part7.panelOpening
    => /\ ~Truthy(part7.panelPortalId)
       /\ Truthy(part7.panelCorrelationId)
       /\ Truthy(part7.closeCallbackId)

\* --------------------------------------------- part_001: the open panel
\* openPanel has set panelOpen and no portal id has been captured
P1_AwaitingPortal == part1.panelOpen /\ ~Truthy(part1.panelPortalId)

\* a help request, or a route event for the registered route
P1_Invocation(ev) ==
  \/ FromPort(ev, "help:request")
  \/ /\ FromPort(ev, "event:event")
     /\ ev.eventType = "route"
     /\ ev.routeName = "ask-mappy"

\* C38: while panelOpen is set and no portal id is captured, an invocation
\* sends nothing and changes no state, and the client leaves this state
\* only on a portal:new event carrying a portal id or on a portal:callback
\* with the registered close callback id
C38_InvocationsInertUntilPortalOrClose ==
  [][/\ (P1_AwaitingPortal /\ P1_Invocation(lastIn'))
          => (out' = <<>> /\ UNCHANGED part1)
     /\ (P1_AwaitingPortal /\ ~P1_AwaitingPortal')
          => \/ /\ FromPort(lastIn', "event:event")
                /\ lastIn'.eventType = "portal:new"
                /\ Truthy(lastIn'.portalId)
                /\ part1'.panelPortalId = lastIn'.portalId
             \/ /\ FromPort(lastIn', "portal:callback")
                /\ lastIn'.callbackId = part1.panelCloseCallbackId
                /\ ~part1'.panelOpen]_vars

\* a help request has been dropped while the panel request was unanswered
C38_Witness ==
  /\ P1_AwaitingPortal
  /\ FromPort(lastIn, "help:request")
  /\ part1.messagePort # Null
  /\ part1.authed
  /\ Truthy(part1.panelCloseCallbackId)
  /\ out = <<>>

====
